---- MODULE Spec2Model ----
(***************************************************************************)
(* Model of the gift purchase worker (src/main.py, gift_purchase_worker)   *)
(* running concurrently with the menu handlers that rewrite config.json    *)
(* (src/handlers/handlers_main.py, src/handlers/handlers_wizard.py) on one *)
(* asyncio event loop.  Every `await` of real I/O is a point where the     *)
(* other coroutine may run, so each such await ends one action.            *)
(***************************************************************************)
EXTENDS Integers, Sequences, FiniteSets, TLC

\* ---------------------------------------------------------------- bounds
MaxCount == 2
MaxLimit == 3
MaxPrice == 2
MaxGifts == 2
MaxExec == 3
MaxCalls == 1
MaxTasks == 2
MaxOps == 2
MaxLen == 4
MaxDamage == 2
MaxGets == 2
MaxList == 2
MaxTime == 7

Counts == {1, MaxCount}
Limits == {2, MaxLimit}
InitLens == {1, 2}

\* ------------------------------------------------ marketplace (external)
\* An item returned by get_filtered_gifts: the worker reads its id and price.
Gift(p) == [id |-> p, price |-> p]

RECURSIVE Distinct(_)
Distinct(s) ==
    IF Len(s) <= 1 THEN TRUE
    ELSE /\ \A i \in 2..Len(s) : s[i] # s[1]
         /\ Distinct(Tail(s))

\* Every list of distinct items get_filtered_gifts may return.
Inventories ==
    { s \in UNION { [1..n -> {Gift(p) : p \in 1..MaxPrice}] : n \in 0..MaxGifts } :
        Distinct(s) }

\* The marketplace scenarios: "any" answers every query and purchase
\* nondeterministically; "ideal" always lists one item priced 1 and every
\* purchase succeeds.
Markets == {"any", "ideal"}
get_filtered_gifts(m) == IF m = "ideal" THEN { <<Gift(1)>> } ELSE Inventories
buy_gift(m) == IF m = "ideal" THEN {TRUE} ELSE BOOLEAN

\* ---------------------------------------------------------- configuration
Profile(count, limit, bought, spent, done) ==
    [COUNT |-> count, LIMIT |-> limit, BOUGHT |-> bought, SPENT |-> spent,
     DONE |-> done]

NoProfile == Profile(0, 0, 0, 0, FALSE)
NoConfig == [ACTIVE |-> FALSE, PROFILES |-> <<>>]

Min(a, b) == IF a <= b THEN a ELSE b

\* A profile as the wizard creates it (fresh), or as the worker leaves it
\* after buying items priced 1 until the count or the limit was reached.
InitProfiles ==
    { Profile(c, l, 0, 0, FALSE) : c \in Counts, l \in Limits }
    \cup { Profile(c, l, Min(c, l), Min(c, l), TRUE) : c \in Counts, l \in Limits }

InitConfigs ==
    { [ACTIVE |-> a, PROFILES |-> ps] :
        a \in BOOLEAN, ps \in UNION { [1..n -> InitProfiles] : n \in InitLens } }

\* Configurations of fresh profiles only.
FreshConfigs ==
    { c \in InitConfigs :
        \A i \in 1..Len(c.PROFILES) :
            c.PROFILES[i] = Profile(MaxCount, MaxLimit, 0, 0, FALSE) }

AllDone(profiles) == \A i \in 1..Len(profiles) : profiles[i].DONE

VARIABLES
    store,                 \* content of config.json
    market,                \* marketplace scenario
    pc,                    \* position of gift_purchase_worker
    config,                \* worker local: config
    profiles,              \* worker local: the list enumerate() walks
    profile_index,         \* worker local (1-based)
    profile,               \* worker local: profile
    COUNT, LIMIT,          \* worker locals
    filtered_gifts,        \* worker local
    gift_index,            \* position of the for-loop over filtered_gifts
    purchases,             \* worker local: ledger of this profile's turn
    before_bought, before_spent,
    any_success, progress_made,
    report_message_lines,  \* worker local: entries of the report
    fe,                    \* the menu handler in flight, if any
    fe_calls,              \* history: menu handlers started so far
    execOK,                \* history: successful buy_gift calls per profile
    execSpent,             \* history: sum of their prices per profile
    everDone,              \* history: profiles marked DONE and not reset since
    cyc,                   \* history of the current worker cycle
    edited,                \* history: the LIMITs a menu edit saved during a worker await
    file,                  \* config.json as the file system holds it
    tasks,                 \* coroutines inside load_config / save_config
    call,                  \* the latest call of the configuration service
    menu,                  \* the dialogue: keyboards in the chat, wizard state
    last_times,            \* RateLimitMiddleware.last_times
    monotonic,             \* the latest reading of time.monotonic()
    log                    \* history: the invocations the middleware has seen

wlocals == <<config, profiles, profile_index, profile, COUNT, LIMIT,
             filtered_gifts, gift_index, purchases, before_bought,
             before_spent, any_success, progress_made, report_message_lines>>
hist == <<fe_calls, execOK, execSpent, everDone, cyc>>
traffic == <<last_times, monotonic, log>>
svc == <<file, tasks, call, menu, traffic>>
aux == <<edited, svc>>
vars == <<store, market, pc, wlocals, fe, hist, aux>>

\* History of one cycle: the profile list line 68 loaded, the profiles
\* queried, those with an attempted, a successful and a failed buy_gift call,
\* the inventory offered to each profile that bought from it, the messages
\* sent, what came last of a buy_gift call and the cooldown, and the
\* refresh_balance calls: the one of line 65 when this is the first
\* iteration after it, those after a profile's turn, one after a failed
\* cycle.
NoRefresh == [start |-> FALSE, profiles |-> {}, failure |-> FALSE]
NoCycle == [active |-> FALSE, start |-> <<>>, queried |-> {}, stocked |-> {},
            attempted |-> {},
            succeeded |-> {}, failed |-> {}, offered |-> <<>>, msgs |-> <<>>,
            since |-> "nothing", refreshes |-> NoRefresh]
NewCycle(ps) ==
    [NoCycle EXCEPT !.active = TRUE, !.start = ps,
                    !.refreshes.start = ~cyc.active /\ cyc.refreshes.start]

NoHandler == [handler |-> "none", config |-> NoConfig]
\* No menu edit is waiting for the worker's next save.
NoEdit == <<>>

\* The configuration service at rest: the specifications of the worker keep
\* config.json in store and leave these alone.
NoFile == "absent"
NoCall == [op |-> "none"]
\* No keyboard has been sent and no wizard is running; profile_index is the
\* 0-based index the dialogue state holds, -1 for None.
NoMenu == [keyboards |-> {}, wizard |-> FALSE, profile_index |-> -1]
NoEvent == [user |-> 0, text |-> <<>>, at |-> 0, outcome |-> "none", first |-> FALSE]
\* No message has passed the middleware, whose dict is empty (rate_limit.py:13).
NoTraffic ==
    /\ last_times = <<>>
    /\ monotonic = 0
    /\ log = [event |-> NoEvent, handled |-> <<>>, invoked |-> {}]
NoService ==
    file = NoFile /\ tasks = <<>> /\ call = NoCall /\ menu = NoMenu /\ NoTraffic

\* The locals and the histories before the first iteration.
StartLocals ==
    /\ config = NoConfig
    /\ profiles = <<>>
    /\ profile_index = 0
    /\ profile = NoProfile
    /\ COUNT = 0
    /\ LIMIT = 0
    /\ filtered_gifts = <<>>
    /\ gift_index = 0
    /\ purchases = <<>>
    /\ before_bought = 0
    /\ before_spent = 0
    /\ any_success = TRUE
    /\ progress_made = FALSE
    /\ report_message_lines = <<>>
    /\ fe = NoHandler
    /\ fe_calls = 0
    /\ execOK = [i \in 1..Len(store.PROFILES) |-> store.PROFILES[i].BOUGHT]
    /\ execSpent = [i \in 1..Len(store.PROFILES) |-> store.PROFILES[i].SPENT]
    /\ everDone = {i \in 1..Len(store.PROFILES) : store.PROFILES[i].DONE}
    /\ cyc = NoCycle
    /\ edited = NoEdit

\* The worker is about to run line 68 for the first time.
Start ==
    /\ pc = "load"
    /\ StartLocals

\* The worker starts on a configuration the menu has just set up.
Init ==
    /\ store \in FreshConfigs
    /\ market = "any"
    /\ Start
    /\ NoService

\* The worker starts on any configuration of InitConfigs.
InitWorker ==
    /\ store \in InitConfigs
    /\ market \in Markets
    /\ Start
    /\ NoService

\* ------------------------------------------------- gift_purchase_worker
\* The locals are dead once an iteration ends: line 68 reassigns config and
\* lines 74-77 the flags before anything reads them.
ClearLocals ==
    /\ config' = NoConfig
    /\ profiles' = <<>>
    /\ profile_index' = 0
    /\ profile' = NoProfile
    /\ COUNT' = 0
    /\ LIMIT' = 0
    /\ filtered_gifts' = <<>>
    /\ gift_index' = 0
    /\ purchases' = <<>>
    /\ before_bought' = 0
    /\ before_spent' = 0
    /\ any_success' = TRUE
    /\ progress_made' = FALSE
    /\ report_message_lines' = <<>>

\* Faulty variant: after the second profile the for-loop starts over.
NextProfile_Restart ==
    /\ profile_index' = IF profile_index > 1 THEN 1 ELSE profile_index + 1
    /\ profile' = NoProfile
    /\ COUNT' = 0
    /\ LIMIT' = 0
    /\ filtered_gifts' = <<>>
    /\ gift_index' = 0
    /\ purchases' = <<>>
    /\ before_bought' = 0
    /\ before_spent' = 0
    /\ pc' = "scan"

\* The locals of one profile's turn, reset when the for-loop moves on.
NextProfile ==
    /\ profile_index' = profile_index + 1
    /\ profile' = NoProfile
    /\ COUNT' = 0
    /\ LIMIT' = 0
    /\ filtered_gifts' = <<>>
    /\ gift_index' = 0
    /\ purchases' = <<>>
    /\ before_bought' = 0
    /\ before_spent' = 0
    /\ pc' = "scan"

\* Faulty variants of the while condition: one cap is not checked.
WhileCondition_NoCount(p, price, count, limit) == p.SPENT + price <= limit
WhileCondition_NoBudget(p, price, count, limit) == p.BOUGHT < count

\* main.py:111-112, the condition of the while loop.
WhileCondition(p, price, count, limit) ==
    p.BOUGHT < count /\ p.SPENT + price <= limit

\* Faulty variants: the limit counts as reached once the dearest item no longer
\* fits; the count is not looked at.
Reached_Early(p, count, limit) == p.BOUGHT >= count \/ p.SPENT + MaxPrice > limit
Reached_NoCount(p, count, limit) == p.SPENT >= limit

\* main.py:139, 147: the count or the limit is reached.
Reached(p, count, limit) == p.BOUGHT >= count \/ p.SPENT >= limit

\* main.py:68-77: load the configuration, idle unless ACTIVE.
Worker_load ==
    /\ pc = "load"
    /\ IF ~store.ACTIVE
       THEN /\ pc' = "idle"
            /\ UNCHANGED <<wlocals, cyc>>
       ELSE /\ pc' = "scan"
            /\ config' = store
            /\ profiles' = store.PROFILES
            /\ profile_index' = 1
            /\ any_success' = TRUE
            /\ progress_made' = FALSE
            /\ report_message_lines' = <<>>
            /\ cyc' = NewCycle(store.PROFILES)
            /\ UNCHANGED <<profile, COUNT, LIMIT, filtered_gifts, gift_index,
                           purchases, before_bought, before_spent>>
    /\ UNCHANGED <<store, market, aux, fe, fe_calls, execOK, execSpent, everDone>>

\* main.py:71-72: asyncio.sleep(1); continue.
Worker_idle ==
    /\ pc = "idle"
    /\ pc' = "load"
    /\ cyc' = NoCycle
    /\ UNCHANGED <<store, market, aux, wlocals, fe, fe_calls, execOK, execSpent, everDone>>

\* main.py:79-91: next profile of the list, skipping the DONE ones.
Worker_scan ==
    /\ pc = "scan"
    /\ IF profile_index > Len(profiles)
       THEN /\ pc' = "L209"
            /\ UNCHANGED <<profile_index, profile, COUNT, LIMIT>>
       ELSE IF profiles[profile_index].DONE
       THEN /\ pc' = "scan"
            /\ profile_index' = profile_index + 1
            /\ UNCHANGED <<profile, COUNT, LIMIT>>
       ELSE /\ pc' = "query"
            /\ profile' = profiles[profile_index]
            /\ COUNT' = profiles[profile_index].COUNT
            /\ LIMIT' = profiles[profile_index].LIMIT
            /\ UNCHANGED profile_index
    /\ UNCHANGED <<store, market, aux, config, profiles, filtered_gifts, gift_index,
                   purchases, before_bought, before_spent, any_success,
                   progress_made, report_message_lines, fe, hist>>

Offer(f, i, gifts) == [j \in DOMAIN f \cup {i} |-> IF j = i THEN gifts ELSE f[j]]

\* Faulty variant: an empty result counts as progress of the cycle.
Worker_query_EmptyIsProgress ==
    /\ pc = "query"
    /\ \E gifts \in get_filtered_gifts(market) :
        /\ IF gifts = <<>>
           THEN NextProfile /\ progress_made' = TRUE
           ELSE /\ pc' = "check"
                /\ filtered_gifts' = gifts
                /\ gift_index' = 1
                /\ purchases' = <<>>
                /\ before_bought' = profile.BOUGHT
                /\ before_spent' = profile.SPENT
                /\ UNCHANGED <<profile_index, profile, COUNT, LIMIT, progress_made>>
        /\ cyc' = [cyc EXCEPT !.queried = @ \cup {profile_index},
                              !.stocked = IF gifts = <<>> THEN @
                                          ELSE @ \cup {profile_index}]
    /\ UNCHANGED <<store, market, aux, config, profiles, any_success,
                   report_message_lines, fe, fe_calls, execOK, execSpent, everDone>>

\* main.py:93-102: the inventory query and its empty-result shortcut.
Worker_query ==
    /\ pc = "query"
    /\ \E gifts \in get_filtered_gifts(market) :
        /\ IF gifts = <<>>
           THEN NextProfile
           ELSE /\ pc' = "check"
                /\ filtered_gifts' = gifts
                /\ gift_index' = 1
                /\ purchases' = <<>>
                /\ before_bought' = profile.BOUGHT
                /\ before_spent' = profile.SPENT
                /\ UNCHANGED <<profile_index, profile, COUNT, LIMIT>>
        /\ cyc' = [cyc EXCEPT !.queried = @ \cup {profile_index},
                              !.stocked = IF gifts = <<>> THEN @
                                          ELSE @ \cup {profile_index}]
    /\ UNCHANGED <<store, market, aux, config, profiles, any_success, progress_made,
                   report_message_lines, fe, fe_calls, execOK, execSpent, everDone>>

\* main.py:139-140 and the for statement of line 104: after the while loop
\* ends, leave the for-loop when a cap is reached or the items are used up,
\* otherwise go on with the next item.
AfterWhile(p) ==
    IF Reached(p, COUNT, LIMIT) \/ gift_index >= Len(filtered_gifts)
    THEN pc' = "eval" /\ UNCHANGED gift_index
    ELSE pc' = "check" /\ gift_index' = gift_index + 1

\* main.py:111-113: the while condition; when it holds buy_gift is called.
Worker_check ==
    /\ pc = "check"
    /\ IF WhileCondition(profile, filtered_gifts[gift_index].price, COUNT, LIMIT)
       THEN /\ \A i \in 1..Len(execOK) : execOK[i] < MaxExec
            /\ pc' = "buy"
            /\ cyc' = [cyc EXCEPT !.attempted = @ \cup {profile_index}]
            /\ UNCHANGED gift_index
       ELSE /\ AfterWhile(profile)
            /\ UNCHANGED cyc
    /\ UNCHANGED <<store, market, aux, config, profiles, profile_index, profile,
                   COUNT, LIMIT, filtered_gifts, purchases, before_bought,
                   before_spent, any_success, progress_made,
                   report_message_lines, fe, fe_calls, execOK, execSpent, everDone>>

Credit(h, i, n) == IF i \in DOMAIN h THEN [h EXCEPT ![i] = @ + n] ELSE h

\* Faulty variant: a failed attempt goes back to the while condition of the
\* same item.
Worker_buy_Retry ==
    /\ pc = "buy"
    /\ \E success \in buy_gift(market) :
        IF success
        THEN /\ pc' = "reload"
             /\ execOK' = Credit(execOK, profile_index, 1)
             /\ execSpent' = Credit(execSpent, profile_index,
                                    filtered_gifts[gift_index].price)
             /\ cyc' = [cyc EXCEPT !.succeeded = @ \cup {profile_index},
                                   !.since = "attempt"]
             /\ UNCHANGED any_success
        ELSE /\ any_success' = FALSE
             /\ pc' = "check"
             /\ cyc' = [cyc EXCEPT !.failed = @ \cup {profile_index},
                                   !.since = "attempt"]
             /\ UNCHANGED <<execOK, execSpent>>
    /\ UNCHANGED <<store, market, aux, config, profiles, profile_index, profile,
                   COUNT, LIMIT, filtered_gifts, gift_index, purchases,
                   before_bought, before_spent, progress_made,
                   report_message_lines, fe, fe_calls, everDone>>

\* main.py:113-125: buy_gift returns; a failure abandons the item.
Worker_buy ==
    /\ pc = "buy"
    /\ \E success \in buy_gift(market) :
        IF success
        THEN /\ pc' = "reload"
             /\ execOK' = Credit(execOK, profile_index, 1)
             /\ execSpent' = Credit(execSpent, profile_index,
                                    filtered_gifts[gift_index].price)
             /\ cyc' = [cyc EXCEPT !.succeeded = @ \cup {profile_index},
                                   !.since = "attempt"]
             /\ UNCHANGED <<any_success, gift_index>>
        ELSE /\ any_success' = FALSE
             /\ AfterWhile(profile)
             /\ cyc' = [cyc EXCEPT !.failed = @ \cup {profile_index},
                                   !.since = "attempt"]
             /\ UNCHANGED <<execOK, execSpent>>
    /\ UNCHANGED <<store, market, aux, config, profiles, profile_index, profile,
                   COUNT, LIMIT, filtered_gifts, purchases, before_bought,
                   before_spent, progress_made, report_message_lines, fe,
                   fe_calls, everDone>>

\* main.py:245: the iteration is over, normally or through the except
\* clause of lines 242-243.
EndIteration ==
    /\ pc' = "sleep"
    /\ ClearLocals

\* main.py:129-130: the counters of a successful purchase.
Record(p, price) == [p EXCEPT !.BOUGHT = @ + 1, !.SPENT = @ + price]

\* main.py:127-131: reload the configuration, count the purchase in the
\* profile now at profile_index.
Worker_reload ==
    /\ pc = "reload"
    /\ IF profile_index > Len(store.PROFILES)
       THEN EndIteration
       ELSE /\ profile' = Record(store.PROFILES[profile_index],
                                 filtered_gifts[gift_index].price)
            /\ config' = [store EXCEPT !.PROFILES[profile_index] = profile']
            /\ purchases' = Append(purchases, filtered_gifts[gift_index])
            /\ pc' = "save"
            /\ UNCHANGED <<profiles, profile_index, COUNT, LIMIT, filtered_gifts,
                           gift_index, before_bought, before_spent, any_success,
                           progress_made, report_message_lines>>
    /\ UNCHANGED <<store, market, aux, fe, hist>>

\* Faulty variant: the purchase is not saved before the cooldown.
Worker_save_Skipped ==
    /\ pc = "save"
    /\ pc' = "cooldown"
    /\ UNCHANGED <<store, market, aux, wlocals, fe, hist>>

\* main.py:132: save_config(config).
Worker_save ==
    /\ pc = "save"
    /\ store' = config
    /\ edited' = NoEdit
    /\ pc' = "cooldown"
    /\ UNCHANGED <<market, svc, wlocals, fe, hist>>

\* main.py:133-137: the cooldown, then the limit check that leaves the while.
Worker_cooldown ==
    /\ pc = "cooldown"
    /\ IF profile.SPENT >= LIMIT
       THEN AfterWhile(profile)
       ELSE pc' = "check" /\ UNCHANGED gift_index
    /\ cyc' = [cyc EXCEPT !.since = "cooldown"]
    /\ UNCHANGED <<store, market, aux, config, profiles, profile_index, profile,
                   COUNT, LIMIT, filtered_gifts, purchases, before_bought,
                   before_spent, any_success, progress_made,
                   report_message_lines, fe, fe_calls, execOK, execSpent,
                   everDone>>

\* One entry of the report (main.py:153-173, 182-202).
Entry(kind, p) ==
    [kind |-> kind, index |-> profile_index, spent |-> p.SPENT, limit |-> LIMIT,
     bought |-> p.BOUGHT, count |-> COUNT, purchases |-> purchases]

\* main.py:142-147, 181-205: completed, partial or no progress.
Worker_eval ==
    /\ pc = "eval"
    /\ LET made_local_progress ==
               profile.BOUGHT > before_bought \/ profile.SPENT > before_spent
       IN  IF Reached(profile, COUNT, LIMIT) /\ ~profile.DONE
           THEN /\ pc' = "done_reload"
                /\ UNCHANGED <<profile_index, profile, COUNT, LIMIT,
                               filtered_gifts, gift_index, purchases,
                               before_bought, before_spent, progress_made,
                               report_message_lines>>
           ELSE IF /\ (profile.BOUGHT < COUNT \/ profile.SPENT < LIMIT)
                   /\ ~profile.DONE
                   /\ made_local_progress
           THEN /\ pc' = "refresh"
                /\ report_message_lines' =
                       Append(report_message_lines, Entry("partial", profile))
                /\ progress_made' = TRUE
                /\ UNCHANGED <<profile_index, profile, COUNT, LIMIT,
                               filtered_gifts, gift_index, purchases,
                               before_bought, before_spent>>
           ELSE /\ NextProfile
                /\ UNCHANGED <<progress_made, report_message_lines>>
    /\ cyc' = IF purchases = <<>> THEN cyc
              ELSE [cyc EXCEPT !.offered = Offer(@, profile_index, filtered_gifts)]
    /\ UNCHANGED <<store, market, aux, config, profiles, any_success, fe, fe_calls,
                   execOK, execSpent, everDone>>

\* main.py:148-150: reload the configuration and mark the profile DONE.
Worker_done_reload ==
    /\ pc = "done_reload"
    /\ IF profile_index > Len(store.PROFILES)
       THEN EndIteration
       ELSE /\ profile' = [store.PROFILES[profile_index] EXCEPT !.DONE = TRUE]
            /\ config' = [store EXCEPT !.PROFILES[profile_index] = profile']
            /\ pc' = "done_save"
            /\ UNCHANGED <<profiles, profile_index, COUNT, LIMIT, filtered_gifts,
                           gift_index, purchases, before_bought, before_spent,
                           any_success, progress_made, report_message_lines>>
    /\ UNCHANGED <<store, market, aux, fe, hist>>

\* main.py:151-176: save, add the "completed" entry to the report.
Worker_done_save ==
    /\ pc = "done_save"
    /\ store' = config
    /\ edited' = NoEdit
    /\ report_message_lines' =
           Append(report_message_lines, Entry("completed", profile))
    /\ progress_made' = TRUE
    /\ pc' = "refresh"
    /\ everDone' = everDone \cup {profile_index}
    /\ UNCHANGED <<market, svc, config, profiles, profile_index, profile, COUNT,
                   LIMIT, filtered_gifts, gift_index, purchases, before_bought,
                   before_spent, any_success, fe, fe_calls, execOK, execSpent,
                   cyc>>

\* main.py:177-178, 206-207: refresh_balance, then the next profile.
Worker_refresh ==
    /\ pc = "refresh"
    /\ NextProfile
    /\ cyc' = [cyc EXCEPT !.refreshes.profiles = @ \cup {profile_index}]
    /\ UNCHANGED <<store, market, aux, config, profiles, any_success, progress_made,
                   report_message_lines, fe, fe_calls, execOK, execSpent,
                   everDone>>

\* Faulty variant: the test of any_success is inverted.
TotalFailure_Inverted(success, progress) == success /\ ~progress

\* main.py:209: every attempt failed and no profile progressed.
TotalFailure(success, progress) == ~success /\ ~progress

\* main.py:209-213: the total-failure test at the end of the cycle.
Worker_L209 ==
    /\ pc = "L209"
    /\ IF TotalFailure(any_success, progress_made)
       THEN config' = [config EXCEPT !.ACTIVE = FALSE] /\ pc' = "fail_save"
       ELSE pc' = "L222" /\ UNCHANGED config
    /\ UNCHANGED <<store, market, aux, profiles, profile_index, profile, COUNT, LIMIT,
                   filtered_gifts, gift_index, purchases, before_bought,
                   before_spent, any_success, progress_made,
                   report_message_lines, fe, hist>>

\* Faulty variant: the deactivation is not saved.
Worker_fail_save_Skipped ==
    /\ pc = "fail_save"
    /\ pc' = "fail_notify"
    /\ UNCHANGED <<store, market, aux, wlocals, fe, hist>>

\* main.py:214.
Worker_fail_save ==
    /\ pc = "fail_save"
    /\ store' = config
    /\ edited' = NoEdit
    /\ pc' = "fail_notify"
    /\ UNCHANGED <<market, svc, wlocals, fe, hist>>

\* bot.send_message: the message the user receives.
Notify(kind, lines) ==
    cyc' = [cyc EXCEPT !.msgs = Append(@, [kind |-> kind, lines |-> lines])]

\* main.py:215-219: the "could not buy, deactivated" notice.
Worker_fail_notify ==
    /\ pc = "fail_notify"
    /\ Notify("insufficient_balance", <<>>)
    /\ pc' = "L222"
    /\ UNCHANGED <<store, market, aux, wlocals, fe, fe_calls, execOK, execSpent, everDone>>

\* Faulty variant: ACTIVE is left as it was loaded.
Worker_L222_Kept ==
    /\ pc = "L222"
    /\ pc' = IF progress_made THEN "report_save" ELSE "L233"
    /\ UNCHANGED <<store, market, aux, wlocals, fe, hist>>

\* main.py:222-223: after progress ACTIVE becomes "not every profile DONE".
Worker_L222 ==
    /\ pc = "L222"
    /\ IF progress_made
       THEN /\ config' = [config EXCEPT !.ACTIVE = ~AllDone(config.PROFILES)]
            /\ pc' = "report_save"
       ELSE pc' = "L233" /\ UNCHANGED config
    /\ UNCHANGED <<store, market, aux, profiles, profile_index, profile, COUNT, LIMIT,
                   filtered_gifts, gift_index, purchases, before_bought,
                   before_spent, any_success, progress_made,
                   report_message_lines, fe, hist>>

\* main.py:224.
Worker_report_save ==
    /\ pc = "report_save"
    /\ store' = config
    /\ edited' = NoEdit
    /\ pc' = "report_notify"
    /\ UNCHANGED <<market, svc, wlocals, fe, hist>>

\* main.py:225-231: the aggregated report.
Worker_report_notify ==
    /\ pc = "report_notify"
    /\ Notify("report", report_message_lines)
    /\ pc' = "L233"
    /\ UNCHANGED <<store, market, aux, wlocals, fe, fe_calls, execOK, execSpent, everDone>>

\* Faulty variant: the all-done test is missing.
Worker_L233_Skipped ==
    /\ pc = "L233"
    /\ EndIteration
    /\ UNCHANGED <<store, market, aux, fe, hist>>

\* Faulty variant: the all-complete branch does not look at ACTIVE.
Worker_L233_AnyActive ==
    /\ pc = "L233"
    /\ IF AllDone(config.PROFILES)
       THEN /\ config' = [config EXCEPT !.ACTIVE = FALSE]
            /\ pc' = "alldone_save"
            /\ UNCHANGED <<profiles, profile_index, profile, COUNT, LIMIT,
                           filtered_gifts, gift_index, purchases, before_bought,
                           before_spent, any_success, progress_made,
                           report_message_lines>>
       ELSE EndIteration
    /\ UNCHANGED <<store, market, aux, fe, hist>>

\* main.py:233-234: every profile DONE while ACTIVE.
Worker_L233 ==
    /\ pc = "L233"
    /\ IF AllDone(config.PROFILES) /\ config.ACTIVE
       THEN /\ config' = [config EXCEPT !.ACTIVE = FALSE]
            /\ pc' = "alldone_save"
            /\ UNCHANGED <<profiles, profile_index, profile, COUNT, LIMIT,
                           filtered_gifts, gift_index, purchases, before_bought,
                           before_spent, any_success, progress_made,
                           report_message_lines>>
       ELSE EndIteration
    /\ UNCHANGED <<store, market, aux, fe, hist>>

\* main.py:235.
Worker_alldone_save ==
    /\ pc = "alldone_save"
    /\ store' = config
    /\ edited' = NoEdit
    /\ pc' = "alldone_notify"
    /\ UNCHANGED <<market, svc, wlocals, fe, hist>>

\* main.py:236-240: the "all profiles complete" notice.
Worker_alldone_notify ==
    /\ pc = "alldone_notify"
    /\ Notify("all_complete", <<>>)
    /\ EndIteration
    /\ UNCHANGED <<store, market, aux, fe, fe_calls, execOK, execSpent, everDone>>

\* main.py:245: asyncio.sleep(0.5), then the next iteration.
Worker_sleep ==
    /\ pc = "sleep"
    /\ pc' = "load"
    /\ UNCHANGED <<store, market, aux, wlocals, fe, hist>>

gift_purchase_worker ==
    \/ Worker_load
    \/ Worker_idle
    \/ Worker_scan
    \/ Worker_query
    \/ Worker_check
    \/ Worker_buy
    \/ Worker_reload
    \/ Worker_save
    \/ Worker_cooldown
    \/ Worker_eval
    \/ Worker_done_reload
    \/ Worker_done_save
    \/ Worker_refresh
    \/ Worker_L209
    \/ Worker_fail_save
    \/ Worker_fail_notify
    \/ Worker_L222
    \/ Worker_report_save
    \/ Worker_report_notify
    \/ Worker_L233
    \/ Worker_alldone_save
    \/ Worker_alldone_notify
    \/ Worker_sleep

\* ------------------------------------------------------- menu handlers
\* Each handler loads the configuration, changes its copy and saves it whole;
\* the save awaits file I/O, so the worker may run between the two.
Begin(name, cfg) ==
    /\ fe.handler = "none"
    /\ fe_calls < MaxCalls
    /\ fe_calls' = fe_calls + 1
    /\ fe' = [handler |-> name, config |-> cfg]
    /\ UNCHANGED <<store, market, aux, pc, wlocals, execOK, execSpent, everDone, cyc>>

Zeros(cfg) == [i \in 1..Len(cfg.PROFILES) |-> 0]

\* handlers_main.py:143-150.
toggle_active_callback ==
    \/ Begin("toggle_active_callback", [store EXCEPT !.ACTIVE = ~@])
    \/ /\ fe.handler = "toggle_active_callback"
       /\ store' = fe.config
       /\ fe' = NoHandler
       /\ UNCHANGED <<market, aux, pc, wlocals, hist>>

\* handlers_main.py:125-129: the counters and flags reset_bought writes.
ResetAll(cfg) ==
    [ACTIVE |-> FALSE,
     PROFILES |-> [i \in 1..Len(cfg.PROFILES) |->
                      [cfg.PROFILES[i] EXCEPT !.BOUGHT = 0, !.SPENT = 0,
                                              !.DONE = FALSE]]]

\* handlers_main.py:118-130.
reset_bought_callback ==
    \/ Begin("reset_bought_callback", ResetAll(store))
    \/ /\ fe.handler = "reset_bought_callback"
       /\ store' = fe.config
       /\ fe' = NoHandler
       /\ execOK' = Zeros(fe.config)
       /\ execSpent' = Zeros(fe.config)
       /\ everDone' = {}
       /\ UNCHANGED <<market, aux, pc, wlocals, fe_calls, cyc>>

\* handlers_wizard.py:412-431; idx comes from the dialogue state and an idx
\* past the list raises before anything is saved.
step_edit_count ==
    \/ \E idx \in 1..Len(store.PROFILES), value \in Counts :
          Begin("step_edit_count", [store EXCEPT !.PROFILES[idx].COUNT = value])
    \/ /\ fe.handler = "step_edit_count"
       /\ store' = fe.config
       /\ fe' = NoHandler
       /\ UNCHANGED <<market, aux, pc, wlocals, hist>>

\* The worker is suspended in get_filtered_gifts or in buy_gift.
AwaitingMarket == {"query", "buy"}
Limits_of(cfg) == [i \in 1..Len(cfg.PROFILES) |-> cfg.PROFILES[i].LIMIT]

\* handlers_wizard.py:377-396.
step_edit_limit ==
    \/ \E idx \in 1..Len(store.PROFILES), value \in Limits :
          Begin("step_edit_limit", [store EXCEPT !.PROFILES[idx].LIMIT = value])
    \/ /\ fe.handler = "step_edit_limit"
       /\ store' = fe.config
       /\ fe' = NoHandler
       /\ edited' = IF pc \in AwaitingMarket THEN Limits_of(fe.config) ELSE edited
       /\ UNCHANGED <<market, svc, pc, wlocals, hist>>

Handlers ==
    \/ toggle_active_callback
    \/ reset_bought_callback
    \/ step_edit_count
    \/ step_edit_limit

Next == gift_purchase_worker \/ Handlers

\* The worker and the menu handlers on one event loop.
Spec == Init /\ [][Next]_vars

\* The worker alone: no menu handler runs.
SpecWorker == InitWorker /\ [][gift_purchase_worker]_vars

\* The worker alone, never suspended for ever: every await of the loop
\* returns.
SpecWorkerFair == SpecWorker /\ WF_vars(gift_purchase_worker)

\* -------------------------------------------- the worker as a task
\* main.py:255 creates the task; it begins at line 65, before the loop.
InitTask ==
    /\ store \in InitConfigs
    /\ market \in Markets
    /\ pc = "start"
    /\ StartLocals
    /\ NoService

\* main.py:65: refresh_balance returns, the loop is entered.
Worker_start ==
    /\ pc = "start"
    /\ pc' = "load"
    /\ cyc' = [cyc EXCEPT !.refreshes.start = TRUE]
    /\ UNCHANGED <<store, market, aux, wlocals, fe, fe_calls, execOK, execSpent,
                   everDone>>

\* The positions at which the worker awaits a collaborator inside the try
\* block: get_valid_config, get_filtered_gifts, buy_gift, save_config,
\* refresh_balance, send_message and update_menu.
AwaitPoints ==
    {"load", "query", "buy", "reload", "save", "done_reload", "done_save",
     "refresh", "fail_save", "fail_notify", "report_save", "report_notify",
     "alldone_save", "alldone_notify"}

\* The awaited call raises. Inside the try block lines 242-245 log it and
\* the iteration ends; line 65 is outside of it and the exception ends the
\* coroutine.
Worker_raise ==
    /\ pc \in AwaitPoints \cup {"start"}
    /\ IF pc = "start"
       THEN pc' = "dead" /\ UNCHANGED wlocals
       ELSE EndIteration
    /\ UNCHANGED <<store, market, aux, fe, hist>>

\* The worker from the creation of its task, every call returning.
SpecTask == InitTask /\ [][Worker_start \/ gift_purchase_worker]_vars

\* The same with calls that may raise.
SpecFaults ==
    InitTask /\ [][Worker_start \/ Worker_raise \/ gift_purchase_worker]_vars

\* ------------------------------------------- config.json as a file
\* load_config and save_config at the level of the file: open(path, "w")
\* truncates the file when it returns, the text is written when the handle is
\* flushed and closed, each handle writes from offset 0, and every one of
\* these steps is awaited in a thread, so other coroutines run in between.

\* The coroutines that call the service, and what each one saves: ACTIVE.
Tasks == 1..MaxTasks
Flags == BOOLEAN

\* json.dumps: "true" is one character shorter than "false".
dumps(active) ==
    IF active THEN <<"{", "t", "r", "u", "e", "}">>
    ELSE <<"{", "f", "a", "l", "s", "e", "}">>

\* json.loads: the text of a complete document, or JSONDecodeError.
loads(text) ==
    IF text = dumps(TRUE) THEN [ok |-> TRUE, ACTIVE |-> TRUE]
    ELSE IF text = dumps(FALSE) THEN [ok |-> TRUE, ACTIVE |-> FALSE]
    ELSE [ok |-> FALSE, error |-> "JSONDecodeError"]

\* write() through a handle opened at offset 0 on a file that may have grown
\* since: the text replaces the first Len(text) characters.
Overwrite(old, text) ==
    IF Len(old) <= Len(text) THEN text
    ELSE text \o SubSeq(old, Len(text) + 1, Len(old))

IdleTask == [op |-> "none", pos |-> "idle", ops |-> 0]

\* config.json exists with a complete document (ensure_config has run).
InitFile ==
    /\ store = NoConfig
    /\ market = "any"
    /\ Start
    /\ file \in {dumps(a) : a \in Flags}
    /\ tasks = [t \in Tasks |-> IdleTask]
    /\ call = NoCall
    /\ menu = NoMenu
    /\ NoTraffic

FileFrame ==
    UNCHANGED <<store, market, pc, wlocals, fe, hist, edited, call, menu, traffic>>

\* services/config.py:98-104, save_config: called, open(path, "w"), write and
\* close.
save_config(t) ==
    \/ /\ tasks[t].pos \in {"idle", "done"}
       /\ tasks[t].ops < MaxOps
       /\ \E a \in Flags :
              tasks' = [tasks EXCEPT ![t] =
                  [op |-> "save", pos |-> "called", text |-> dumps(a),
                   ops |-> tasks[t].ops + 1]]
       /\ UNCHANGED file
       /\ FileFrame
    \/ /\ tasks[t].op = "save"
       /\ tasks[t].pos = "called"
       /\ file' = <<>>
       /\ tasks' = [tasks EXCEPT ![t].pos = "opened"]
       /\ FileFrame
    \/ /\ tasks[t].op = "save"
       /\ tasks[t].pos = "opened"
       /\ file' = Overwrite(file, tasks[t].text)
       /\ tasks' = [tasks EXCEPT ![t].pos = "done"]
       /\ FileFrame

\* services/config.py:87-95, load_config: called, then read and json.loads.
load_config(t) ==
    \/ /\ tasks[t].pos \in {"idle", "done"}
       /\ tasks[t].ops < MaxOps
       /\ tasks' = [tasks EXCEPT ![t] =
              [op |-> "load", pos |-> "called", ops |-> tasks[t].ops + 1]]
       /\ UNCHANGED file
       /\ FileFrame
    \/ /\ tasks[t].op = "load"
       /\ tasks[t].pos = "called"
       /\ tasks' = [tasks EXCEPT ![t] =
              [op |-> "load", pos |-> "done", result |-> loads(file),
               ops |-> tasks[t].ops]]
       /\ UNCHANGED file
       /\ FileFrame

FileNext == \E t \in Tasks : save_config(t) \/ load_config(t)

\* Coroutines saving and loading config.json concurrently.
SpecFile == InitFile /\ [][FileNext]_vars

\* ------------------------------------------------- profile management
\* services/config.py:16.
MAX_PROFILES == 3

\* services/config.py:19-33 (the fields the model keeps).
DEFAULT_PROFILE == Profile(5, 1000000, 0, 0, FALSE)

\* The profile step_user_id builds from the wizard's answers
\* (handlers_wizard.py:532-544).
profile_data == Profile(MaxCount, MaxLimit, 0, 0, FALSE)

\* Python's list.pop(index), index 0-based.
Pop(list, index) ==
    [k \in 1..(Len(list) - 1) |-> IF k <= index THEN list[k] ELSE list[k + 1]]

\* services/config.py:224-231; every operation returns the configuration it
\* saved, or the exception it raised before saving.
add_profile(cfg, p) ==
    [ok |-> TRUE, config |-> [cfg EXCEPT !.PROFILES = Append(@, p)]]

\* services/config.py:234-243.
update_profile(cfg, index, p) ==
    IF index >= Len(cfg.PROFILES)
    THEN [ok |-> FALSE, error |-> "IndexError"]
    ELSE [ok |-> TRUE, config |-> [cfg EXCEPT !.PROFILES[index + 1] = p]]

\* Faulty variant: no default profile takes the place of the last one.
remove_profile_NoDefault(cfg, index) ==
    IF index >= Len(cfg.PROFILES)
    THEN [ok |-> FALSE, error |-> "IndexError"]
    ELSE [ok |-> TRUE, config |-> [cfg EXCEPT !.PROFILES = Pop(@, index)]]

\* services/config.py:246-258.
remove_profile(cfg, index) ==
    IF index >= Len(cfg.PROFILES)
    THEN [ok |-> FALSE, error |-> "IndexError"]
    ELSE LET rest == Pop(cfg.PROFILES, index)
         IN  [ok |-> TRUE,
              config |-> [cfg EXCEPT !.PROFILES =
                             IF rest = <<>> THEN <<DEFAULT_PROFILE>> ELSE rest]]

\* The keyboards a message can carry: the profile list of n profiles (edit
\* and delete buttons for indexes below n, the add button while
\* n < MAX_PROFILES), and the confirmation of deleting index n.
ListKeyboard(n) == [kind |-> "profiles", n |-> n]
ConfirmKeyboard(idx) == [kind |-> "confirm", n |-> idx]
HasAddButton(kb) == kb.kind = "profiles" /\ kb.n < MAX_PROFILES

\* handlers_wizard.py:46-85: a new message with the list keyboard.
profiles_menu(keyboards) == keyboards \cup {ListKeyboard(Len(store'.PROFILES))}

MenuFrame ==
    UNCHANGED <<market, pc, wlocals, fe, hist, edited, file, tasks, call, traffic>>

\* handlers_wizard.py:88-95.
on_profiles_menu ==
    /\ UNCHANGED store
    /\ menu' = [menu EXCEPT !.keyboards = profiles_menu(@)]
    /\ MenuFrame

\* handlers_wizard.py:136-151: the edit button of a list keyboard; the message
\* becomes the profile's edit keyboard.
on_profile_edit ==
    \E kb \in menu.keyboards : \E idx \in 0..(MaxLen - 1) :
        /\ kb.kind = "profiles"
        /\ idx < kb.n
        /\ idx < Len(store.PROFILES)
        /\ menu' = [menu EXCEPT !.profile_index = idx,
                                 !.keyboards = @ \ {kb}]
        /\ UNCHANGED store
        /\ MenuFrame

\* handlers_wizard.py:492-503: the add button; the message keeps its keyboard.
on_profile_add ==
    /\ \E kb \in menu.keyboards : HasAddButton(kb)
    /\ menu' = [menu EXCEPT !.wizard = TRUE, !.profile_index = -1]
    /\ UNCHANGED store
    /\ MenuFrame

\* handlers_wizard.py:649-656: the wizard starts, profile_index stays as the
\* dialogue state has it (during a wizard the callback changes nothing the
\* model keeps).
edit_config_handler ==
    /\ ~menu.wizard
    /\ menu' = [menu EXCEPT !.wizard = TRUE]
    /\ UNCHANGED store
    /\ MenuFrame

\* handlers_wizard.py:506-556, the last step of the wizard: add the profile,
\* or replace the one at profile_index. An IndexError leaves the wizard
\* state as it is.
step_user_id ==
    /\ menu.wizard
    /\ Len(store.PROFILES) < MaxLen
    /\ LET result == IF menu.profile_index = -1
                     THEN add_profile(store, profile_data)
                     ELSE update_profile(store, menu.profile_index, profile_data)
       IN  IF result.ok
           THEN /\ store' = result.config
                /\ menu' = [menu EXCEPT !.wizard = FALSE, !.profile_index = -1]
           ELSE UNCHANGED <<store, menu>>
    /\ MenuFrame

\* handlers_wizard.py:577-603: a delete button; the message becomes the
\* confirmation, unless profiles[idx] raises.
on_profile_delete_confirm ==
    \E kb \in menu.keyboards : \E idx \in 0..(MaxLen - 1) :
        /\ kb.kind = "profiles"
        /\ idx < kb.n
        /\ menu' = IF idx < Len(store.PROFILES)
                    THEN [menu EXCEPT !.keyboards =
                             (@ \ {kb}) \cup {ConfirmKeyboard(idx)}]
                    ELSE menu
        /\ UNCHANGED store
        /\ MenuFrame

\* handlers_wizard.py:606-620: the "yes" of a confirmation. With one profile
\* left ACTIVE = false is saved first; remove_profile may then raise, and
\* nothing after it runs.
on_profile_delete_final ==
    \E kb \in menu.keyboards :
        /\ kb.kind = "confirm"
        /\ LET config1 == IF Len(store.PROFILES) = 1
                          THEN [store EXCEPT !.ACTIVE = FALSE] ELSE store
               result == remove_profile(config1, kb.n)
           IN  IF result.ok
               THEN /\ store' = result.config
                    /\ menu' = [menu EXCEPT !.keyboards =
                                    profiles_menu(@ \ {kb})]
               ELSE /\ store' = config1
                    /\ UNCHANGED menu
        /\ MenuFrame

\* handlers_wizard.py:623-631: the "no" of a confirmation.
on_profile_delete_cancel ==
    \E kb \in menu.keyboards :
        /\ kb.kind = "confirm"
        /\ UNCHANGED store
        /\ menu' = [menu EXCEPT !.keyboards = profiles_menu(@ \ {kb})]
        /\ MenuFrame

MenuNext ==
    \/ on_profiles_menu
    \/ on_profile_edit
    \/ on_profile_add
    \/ edit_config_handler
    \/ step_user_id
    \/ on_profile_delete_confirm
    \/ on_profile_delete_final
    \/ on_profile_delete_cancel

\* Configurations whose profiles the wizard created with its largest
\* answers, fresh or bought out.
MenuConfigs ==
    {cfg \in InitConfigs :
        \A i \in 1..Len(cfg.PROFILES) :
            cfg.PROFILES[i].COUNT = MaxCount /\ cfg.PROFILES[i].LIMIT = MaxLimit}

\* The worker is idle; the user works through the profile menus.
InitMenu ==
    /\ store \in MenuConfigs
    /\ market = "any"
    /\ Start
    /\ NoService

\* The profile menus, one handler at a time.
SpecMenu == InitMenu /\ [][MenuNext]_vars

\* The worker runs while the user confirms the deletion of the first of two
\* profiles that differ in COUNT and LIMIT.
InitRemoval ==
    /\ store = [ACTIVE |-> TRUE,
                PROFILES |-> <<Profile(1, 2, 0, 0, FALSE),
                               Profile(MaxCount, MaxLimit, 0, 0, FALSE)>>]
    /\ market = "any"
    /\ Start
    /\ file = NoFile /\ tasks = <<>> /\ call = NoCall
    /\ menu = [NoMenu EXCEPT !.keyboards = {ConfirmKeyboard(0)}]
    /\ NoTraffic

\* main.py:255-256: the worker task and the dispatcher on one event loop.
SpecRemoval == InitRemoval /\ [][gift_purchase_worker \/ on_profile_delete_final]_vars

\* ------------------------------------------- validation and migration
\* config.json as the document json.loads returns. A value carries its JSON
\* type; v is the number, 1/0 for true/false, n for the float n.0, a code for
\* a string. "missing" stands for a key the dict does not have.
IntVal(n) == [t |-> "int", v |-> n]
BoolVal(b) == [t |-> "bool", v |-> IF b THEN 1 ELSE 0]
StrVal(n) == [t |-> "str", v |-> n]
FloatVal(n) == [t |-> "float", v |-> n]
NoneVal == [t |-> "null", v |-> 0]
Missing == [t |-> "missing", v |-> 0]

\* main.py:36.
USER_ID == 42

\* services/config.py:45-57.
PROFILE_TYPES ==
    [MIN_PRICE |-> <<"int", FALSE>>, MAX_PRICE |-> <<"int", FALSE>>,
     MIN_SUPPLY |-> <<"int", FALSE>>, MAX_SUPPLY |-> <<"int", FALSE>>,
     LIMIT |-> <<"int", FALSE>>, COUNT |-> <<"int", FALSE>>,
     TARGET_USER_ID |-> <<"int", TRUE>>, TARGET_CHAT_ID |-> <<"str", TRUE>>,
     BOUGHT |-> <<"int", FALSE>>, SPENT |-> <<"int", FALSE>>,
     DONE |-> <<"bool", FALSE>>]
ProfileKeys == DOMAIN PROFILE_TYPES

\* services/config.py:60-65, without PROFILES, which validate_config treats
\* apart.
CONFIG_TYPES ==
    [BALANCE |-> <<"int", FALSE>>, ACTIVE |-> <<"bool", FALSE>>,
     LAST_MENU_MESSAGE_ID |-> <<"int", TRUE>>]
ConfigKeys == DOMAIN CONFIG_TYPES

\* services/config.py:19-33, all the fields.
DefaultFields(user_id) ==
    [MIN_PRICE |-> IntVal(5000), MAX_PRICE |-> IntVal(10000),
     MIN_SUPPLY |-> IntVal(1000), MAX_SUPPLY |-> IntVal(10000),
     LIMIT |-> IntVal(1000000), COUNT |-> IntVal(5),
     TARGET_USER_ID |-> IntVal(user_id), TARGET_CHAT_ID |-> NoneVal,
     BOUGHT |-> IntVal(0), SPENT |-> IntVal(0), DONE |-> BoolVal(FALSE)]

\* An element of the PROFILES list: a dict with its fields, or a value of
\* another type (f is then empty).
NoFields == [k \in ProfileKeys |-> Missing]
Dict(f) == [t |-> "dict", f |-> f]
Scalar(t) == [t |-> t, f |-> NoFields]

\* The value under PROFILES: a list, a string (v holds its characters),
\* another type, or no such key.
List(elems) == [t |-> "list", v |-> elems]
Text(chars) == [t |-> "str", v |-> chars]
Other(t) == [t |-> t, v |-> <<>>]

\* services/config.py:35-42; flat holds profile keys found at the top level
\* (the legacy format).
DefaultDoc(user_id) ==
    [BALANCE |-> IntVal(0), ACTIVE |-> BoolVal(FALSE),
     LAST_MENU_MESSAGE_ID |-> NoneVal,
     PROFILES |-> List(<<Dict(DefaultFields(user_id))>>),
     flat |-> NoFields]

\* Python's isinstance: bool is a subclass of int.
isinstance(value, expected_type) ==
    IF expected_type = "int" THEN value.t \in {"int", "bool"}
    ELSE value.t = expected_type

\* services/config.py:68-74.
is_valid_type(value, expected_type, allow_none) ==
    IF value.t = "null" THEN allow_none
    ELSE isinstance(value, expected_type)

Returned(value) == [ok |-> TRUE, error |-> "", value |-> value]
Raised(error, value) == [ok |-> FALSE, error |-> error, value |-> value]

\* services/config.py:107-118. "key not in profile" raises TypeError on an
\* int and on None, and is true of a string that does not contain the key.
validate_profile(p, user_id) ==
    IF p.t \in {"int", "null"}
    THEN Raised("TypeError", p)
    ELSE Returned(Dict(
        [key \in ProfileKeys |->
            IF \/ p.t # "dict"
               \/ p.f[key].t = "missing"
               \/ ~is_valid_type(p.f[key], PROFILE_TYPES[key][1],
                                 PROFILE_TYPES[key][2])
            THEN DefaultFields(IF user_id = 0 THEN 0 ELSE user_id)[key]
            ELSE p.f[key]]))

\* services/config.py:121-143. config.get("PROFILES", []) is iterated
\* whatever its type: None and an int raise TypeError, a string yields its
\* characters.
validate_config(doc, user_id) ==
    LET P == doc.PROFILES
        elems == IF P.t = "missing" THEN <<>> ELSE P.v
        each == [i \in 1..Len(elems) |-> validate_profile(elems[i], user_id)]
        valid_profiles == [i \in 1..Len(elems) |-> each[i].value]
        top == [key \in ConfigKeys |->
                   IF \/ doc[key].t = "missing"
                      \/ ~is_valid_type(doc[key], CONFIG_TYPES[key][1],
                                        CONFIG_TYPES[key][2])
                   THEN DefaultDoc(user_id)[key]
                   ELSE doc[key]]
    IN  IF P.t \in {"null", "int"} \/ \E i \in 1..Len(elems) : ~each[i].ok
        THEN Raised("TypeError", doc)
        ELSE Returned(
            [BALANCE |-> top.BALANCE, ACTIVE |-> top.ACTIVE,
             LAST_MENU_MESSAGE_ID |-> top.LAST_MENU_MESSAGE_ID,
             PROFILES |-> List(IF valid_profiles = <<>>
                               THEN <<Dict(DefaultFields(user_id))>>
                               ELSE valid_profiles),
             flat |-> NoFields])

\* Faulty variant: no two values are equal.
PyEq_Never(a, b) == FALSE

\* Python's ==: int, bool and float compare by number (True == 1,
\* 0 == 0.0); a key of one dict must be a key of the other.
PyEq(a, b) ==
    IF a.t \in {"int", "bool", "float"}
    THEN b.t \in {"int", "bool", "float"} /\ a.v = b.v
    ELSE a.t = b.t /\ a.v = b.v

\* services/config.py:154, validated != config on the two dicts.
PyEqDoc(a, b) ==
    /\ \A key \in ConfigKeys : PyEq(a[key], b[key])
    /\ \A key \in ProfileKeys : PyEq(a.flat[key], b.flat[key])
    /\ a.PROFILES.t = b.PROFILES.t
    /\ Len(a.PROFILES.v) = Len(b.PROFILES.v)
    /\ \A i \in 1..Len(a.PROFILES.v) :
           /\ a.PROFILES.v[i].t = b.PROFILES.v[i].t
           /\ \A key \in ProfileKeys :
                  PyEq(a.PROFILES.v[i].f[key], b.PROFILES.v[i].f[key])

\* The file of this part: absent, holding a document, or holding text that
\* json.loads rejects (doc is then not looked at).
Absent == [exists |-> FALSE, json |-> FALSE, doc |-> DefaultDoc(0)]
Holding(doc) == [exists |-> TRUE, json |-> TRUE, doc |-> doc]
Unparseable == [exists |-> TRUE, json |-> FALSE, doc |-> DefaultDoc(0)]

\* The record of a get_valid_config call: what it loaded, what it returned
\* or raised, whether line 155 saved, the file it found, whether the call
\* before it was a get_valid_config too and whether that one saved.
CallRecord(op, loaded, res, wrote) ==
    [op |-> op, ok |-> res.ok, error |-> res.error, found |-> file,
     loaded |-> loaded,
     result |-> res.value, wrote |-> wrote,
     repeat |-> call.op = "get_valid_config",
     first_wrote |-> call.op = "get_valid_config" /\ call.ok /\ call.wrote,
     gets |-> IF call.op = "none" THEN 1 ELSE call.gets + 1]

ConfigFrame ==
    UNCHANGED <<store, market, pc, wlocals, fe, hist, edited, menu, traffic>>

\* services/config.py:146-156: ensure_config, load_config, validate_config,
\* and save_config when the validated dict is not equal to the loaded one.
\* json.loads of line 95 raises JSONDecodeError on text it rejects.
get_valid_config ==
    /\ IF call.op = "none" THEN TRUE ELSE call.gets < MaxGets
    /\ tasks = <<>>
    /\ IF file.exists /\ ~file.json
       THEN /\ call' = CallRecord("get_valid_config", file.doc,
                                  Raised("JSONDecodeError", file.doc), FALSE)
            /\ UNCHANGED file
       ELSE LET loaded == IF file.exists THEN file.doc ELSE DefaultDoc(USER_ID)
                validated == validate_config(loaded, USER_ID)
                wrote == validated.ok /\ ~PyEqDoc(validated.value, loaded)
            IN  /\ file' = Holding(IF wrote THEN validated.value ELSE loaded)
                /\ call' = CallRecord("get_valid_config", loaded, validated, wrote)
    /\ UNCHANGED tasks
    /\ ConfigFrame

\* services/config.py:180-194: the default of a key the legacy record lacks.
LegacyDefaults ==
    [LIMIT |-> IntVal(1000000), SPENT |-> IntVal(0), BOUGHT |-> IntVal(0),
     DONE |-> BoolVal(FALSE), COUNT |-> IntVal(5)]

\* Faulty variant: LIMIT is not defaulted.
LegacyField_NoLimit(doc, key) ==
    IF doc.flat[key].t # "missing" THEN doc.flat[key]
    ELSE IF key \in DOMAIN LegacyDefaults \ {"LIMIT"} THEN LegacyDefaults[key]
    ELSE Missing

\* services/config.py:186-194: a key of the new profile.
LegacyField(doc, key) ==
    IF doc.flat[key].t # "missing" THEN doc.flat[key]
    ELSE IF key \in DOMAIN LegacyDefaults THEN LegacyDefaults[key]
    ELSE Missing

\* services/config.py:196-202, dict.get with its default.
Get(value, default) == IF value.t = "missing" THEN default ELSE value

\* services/config.py:159-208: a file json.loads rejects is removed, a
\* document without the PROFILES key is rewritten in the new format.
migrate_config_if_needed ==
    /\ call.op = "none"
    /\ IF file.exists /\ ~file.json
       THEN file' = Absent
       ELSE IF file.exists /\ file.doc.PROFILES.t = "missing"
       THEN file' = Holding(
               [BALANCE |-> Get(file.doc.BALANCE, IntVal(0)),
                ACTIVE |-> Get(file.doc.ACTIVE, BoolVal(FALSE)),
                LAST_MENU_MESSAGE_ID |->
                    Get(file.doc.LAST_MENU_MESSAGE_ID, NoneVal),
                PROFILES |-> List(<<Dict([key \in ProfileKeys |->
                                            LegacyField(file.doc, key)])>>),
                flat |-> NoFields])
       ELSE UNCHANGED file
    /\ call' = [op |-> "migrate_config_if_needed", ok |-> TRUE, error |-> "",
                found |-> file, loaded |-> file.doc, result |-> file'.doc,
                wrote |-> file' # file /\ file'.exists,
                repeat |-> FALSE, first_wrote |-> FALSE, gets |-> 0]
    /\ UNCHANGED tasks
    /\ ConfigFrame

\* main.py:254 and services/config.py:77-84: at start-up, after the
\* migration, a missing file is created from the defaults.
ensure_config ==
    /\ call.op = "migrate_config_if_needed"
    /\ file' = IF file.exists THEN file ELSE Holding(DefaultDoc(USER_ID))
    /\ call' = [op |-> "ensure_config", ok |-> TRUE, error |-> "",
                found |-> file, loaded |-> file.doc, result |-> file'.doc,
                wrote |-> ~file.exists,
                repeat |-> FALSE, first_wrote |-> FALSE, gets |-> 0]
    /\ UNCHANGED tasks
    /\ ConfigFrame

\* services/config.py:102: another coroutine saves the configuration it
\* loaded; open(path, "w") empties the file and the write is awaited.
save_config_open ==
    /\ call.op \in {"ensure_config", "get_valid_config"}
    /\ tasks = <<>>
    /\ file.exists /\ file.json
    /\ tasks' = <<file.doc>>
    /\ file' = Unparseable
    /\ call' = [call EXCEPT !.op = "save_config"]
    /\ ConfigFrame

\* services/config.py:103: the awaited write of that save.
save_config_write ==
    /\ tasks # <<>>
    /\ file' = Holding(tasks[1])
    /\ tasks' = <<>>
    /\ UNCHANGED call
    /\ ConfigFrame

\* The documents the checks start from. A valid one with no default value
\* in it:
BaseFields ==
    [MIN_PRICE |-> IntVal(1), MAX_PRICE |-> IntVal(2),
     MIN_SUPPLY |-> IntVal(3), MAX_SUPPLY |-> IntVal(4),
     LIMIT |-> IntVal(6), COUNT |-> IntVal(2),
     TARGET_USER_ID |-> IntVal(7), TARGET_CHAT_ID |-> StrVal(1),
     BOUGHT |-> IntVal(1), SPENT |-> IntVal(1), DONE |-> BoolVal(TRUE)]
BaseDoc ==
    [BALANCE |-> IntVal(8), ACTIVE |-> BoolVal(TRUE),
     LAST_MENU_MESSAGE_ID |-> IntVal(9),
     PROFILES |-> List(<<Dict(BaseFields)>>), flat |-> NoFields]

\* What a damaged field may hold.
Junk == {IntVal(0), BoolVal(TRUE), StrVal(1), FloatVal(0), NoneVal, Missing}

\* The document with one more field replaced: a top-level one, or one of
\* the first profile.
DamageTop(doc, key, value) ==
    [BALANCE |-> IF key = "BALANCE" THEN value ELSE doc.BALANCE,
     ACTIVE |-> IF key = "ACTIVE" THEN value ELSE doc.ACTIVE,
     LAST_MENU_MESSAGE_ID |->
         IF key = "LAST_MENU_MESSAGE_ID" THEN value ELSE doc.LAST_MENU_MESSAGE_ID,
     PROFILES |-> doc.PROFILES, flat |-> doc.flat]
DamageProfile(doc, key, value) ==
    [doc EXCEPT !.PROFILES.v[1].f[key] = value]

RECURSIVE Damaged(_)
Damaged(n) ==
    IF n = 0 THEN {BaseDoc}
    ELSE LET less == Damaged(n - 1)
         IN  less
             \cup {DamageTop(d, key, value) :
                       d \in less, key \in ConfigKeys, value \in Junk}
             \cup {DamageProfile(d, key, value) :
                       d \in less, key \in ProfileKeys, value \in Junk}

\* What PROFILES may hold instead of a list of dicts.
OddProfiles ==
    {Other("null"), Other("int"), Other("missing"), List(<<>>),
     Text(<<Scalar("str")>>), Text(<<Scalar("str"), Scalar("str")>>),
     List(<<Scalar("int")>>), List(<<Scalar("null")>>),
     List(<<Scalar("str")>>),
     List(<<Dict(BaseFields), Dict(DefaultFields(USER_ID))>>),
     List(<<Dict(BaseFields), Dict(NoFields)>>)}
OddDocs == {[BaseDoc EXCEPT !.PROFILES = P] : P \in OddProfiles}

\* Legacy records: no PROFILES key, any of the profile keys at the top
\* level, the global keys all there or all missing.
LegacyDocs ==
    {[BALANCE |-> IF globals THEN BaseDoc.BALANCE ELSE Missing,
      ACTIVE |-> IF globals THEN BaseDoc.ACTIVE ELSE Missing,
      LAST_MENU_MESSAGE_ID |->
          IF globals THEN BaseDoc.LAST_MENU_MESSAGE_ID ELSE Missing,
      PROFILES |-> Other("missing"),
      flat |-> [key \in ProfileKeys |->
                   IF key \in present THEN BaseFields[key] ELSE Missing]] :
        globals \in BOOLEAN, present \in SUBSET ProfileKeys}

Docs == Damaged(MaxDamage) \cup OddDocs \cup LegacyDocs \cup {DefaultDoc(USER_ID)}

InitConfig ==
    /\ store = NoConfig
    /\ market = "any"
    /\ Start
    /\ file \in {Absent, Unparseable} \cup {Holding(doc) : doc \in Docs}
    /\ tasks = <<>>
    /\ call = NoCall
    /\ menu = NoMenu
    /\ NoTraffic

ConfigNext ==
    \/ get_valid_config
    \/ migrate_config_if_needed
    \/ ensure_config
    \/ save_config_open
    \/ save_config_write

\* The configuration service called on any document of Docs.
SpecConfig == InitConfig /\ [][ConfigNext]_vars

\* --------------------------------------------------------- recipients
\* The operations that write a profile, on the documents of the previous
\* part: what they do to TARGET_USER_ID and TARGET_CHAT_ID.

\* What the user types as the recipient: whether it starts with "@", what
\* get_chat_type answers for it, whether str.isdigit holds and the number
\* it then is.
UserInputs ==
    {[text |-> "@channel", at |-> TRUE, chat_type |-> "channel",
      isdigit |-> FALSE, int |-> 0],
     [text |-> "@person", at |-> TRUE, chat_type |-> "user",
      isdigit |-> FALSE, int |-> 0],
     [text |-> "7", at |-> FALSE, chat_type |-> "error", isdigit |-> TRUE,
      int |-> 7],
     [text |-> "seven", at |-> FALSE, chat_type |-> "error",
      isdigit |-> FALSE, int |-> 0]}

\* Faulty variant: a channel is stored and the user id is set as well.
Recipient_Both(user_input) ==
    IF user_input.at
    THEN [ok |-> user_input.chat_type = "channel",
          target_user |-> IntVal(USER_ID), target_chat |-> StrVal(1)]
    ELSE [ok |-> user_input.isdigit,
          target_user |-> IntVal(user_input.int), target_chat |-> NoneVal]

\* handlers_wizard.py:458-472 and 513-527: the recipient the input names,
\* or the input is rejected.
Recipient(user_input) ==
    IF user_input.at
    THEN [ok |-> user_input.chat_type = "channel",
          target_user |-> NoneVal, target_chat |-> StrVal(1)]
    ELSE [ok |-> user_input.isdigit,
          target_user |-> IntVal(user_input.int), target_chat |-> NoneVal]

\* The profile list of a document with one profile replaced, added, removed.
WithProfiles(doc, list) == [doc EXCEPT !.PROFILES = List(list)]
Stepped(op) == call' = [op |-> op]
TargetFrame ==
    UNCHANGED <<store, market, pc, wlocals, fe, hist, edited, menu, traffic>>

\* handlers_wizard.py:447-489: the recipient of the profile at the index
\* the dialogue holds is replaced; an index past the list raises before
\* the save.
step_edit_user_id ==
    \E idx \in 0..(MaxList - 1), user_input \in UserInputs :
        LET r == Recipient(user_input)
            cfg == validate_config(file.doc, USER_ID).value
        IN  /\ file' = IF r.ok /\ idx < Len(cfg.PROFILES.v)
                       THEN Holding([cfg EXCEPT
                                !.PROFILES.v[idx + 1].f["TARGET_USER_ID"] = r.target_user,
                                !.PROFILES.v[idx + 1].f["TARGET_CHAT_ID"] = r.target_chat])
                       ELSE file
            /\ Stepped("step_edit_user_id")
            /\ UNCHANGED tasks
            /\ TargetFrame

\* handlers_wizard.py:529-541: the profile the wizard builds.
WizardProfile(r) ==
    Dict([BaseFields EXCEPT !["TARGET_USER_ID"] = r.target_user,
                            !["TARGET_CHAT_ID"] = r.target_chat,
                            !["BOUGHT"] = IntVal(0), !["SPENT"] = IntVal(0),
                            !["DONE"] = BoolVal(FALSE)])

\* handlers_wizard.py:506-556 and services/config.py:224-243: the last step
\* of the wizard adds the profile (profile_index is None, here -1) or
\* replaces the one at profile_index.
step_user_id_recipient ==
    \E index \in -1..(MaxList - 1), user_input \in UserInputs :
        LET r == Recipient(user_input)
            cfg == validate_config(file.doc, USER_ID).value
            list == cfg.PROFILES.v
        IN  /\ index = -1 => Len(list) < MaxList
            /\ file' = IF ~r.ok THEN file
                       ELSE IF index = -1
                       THEN Holding(WithProfiles(cfg,
                                Append(list, WizardProfile(r))))
                       ELSE IF index < Len(list)
                       THEN Holding(WithProfiles(cfg,
                                [list EXCEPT ![index + 1] = WizardProfile(r)]))
                       ELSE file
            /\ Stepped("step_user_id")
            /\ UNCHANGED tasks
            /\ TargetFrame

\* handlers_wizard.py:607-621 and services/config.py:246-258: the profile is
\* removed; the last one is replaced by DEFAULT_PROFILE(user_id).
on_profile_delete_final_recipient ==
    \E idx \in 0..(MaxList - 1) :
        LET cfg == validate_config(file.doc, USER_ID).value
            list == cfg.PROFILES.v
            rest == Pop(list, idx)
        IN  /\ file' = IF idx >= Len(list) THEN file
                       ELSE Holding(WithProfiles(cfg,
                                IF rest = <<>>
                                THEN <<Dict(DefaultFields(USER_ID))>>
                                ELSE rest))
            /\ Stepped("on_profile_delete_final")
            /\ UNCHANGED tasks
            /\ TargetFrame

\* main.py:68, 127, 148: the worker loads the configuration.
worker_loads ==
    /\ tasks' = <<validate_config(file.doc, USER_ID).value>>
    /\ Stepped("gift_purchase_worker")
    /\ UNCHANGED file
    /\ TargetFrame

\* main.py:129-132, 150-151, 213-235: the worker changes BOUGHT, SPENT, DONE
\* or ACTIVE in its copy and saves the copy whole.
worker_saves ==
    /\ tasks # <<>>
    /\ \E i \in 1..Len(tasks[1].PROFILES.v) :
           file' = Holding([tasks[1] EXCEPT
                       !.PROFILES.v[i].f["DONE"] = BoolVal(TRUE)])
    /\ tasks' = <<>>
    /\ Stepped("gift_purchase_worker")
    /\ TargetFrame

InitTargets ==
    /\ store = NoConfig
    /\ market = "any"
    /\ Start
    /\ file = Holding(DefaultDoc(USER_ID))
    /\ tasks = <<>>
    /\ call = NoCall
    /\ menu = NoMenu
    /\ NoTraffic

TargetNext ==
    \/ step_edit_user_id
    \/ step_user_id_recipient
    \/ on_profile_delete_final_recipient
    \/ worker_loads
    \/ worker_saves

\* The wizard, the recipient editor, the removal and the worker's saves,
\* from the default configuration.
SpecTargets == InitTargets /\ [][TargetNext]_vars

\* ------------------------------------------------------- rate limiting
\* main.py:46: the limits, in seconds, and the users exempt from them
\* (main.py:38-39).
commands_limits == [c \in {"/start", "/withdraw_all"} |-> 3]
allowed_user_ids == {USER_ID}

\* The owner and one other user.
Users == {USER_ID, USER_ID + 1}

\* Message texts as the words str.split() yields; <<>> is a message without
\* text.
Texts == {<<"/start">>, <<"/start", "now">>, <<"/withdraw_all">>, <<"hello">>, <<>>}

\* The limited command a text begins with (rate_limit.py:27-29).
Command(text) ==
    IF text # <<>> /\ text[1] \in DOMAIN commands_limits THEN text[1] ELSE "none"

\* d[k] = v on a dict.
Put(d, k, v) == [x \in DOMAIN d \cup {k} |-> IF x = k THEN v ELSE d[x]]

\* rate_limit.py:30, self.last_times.setdefault(user_id, {}).
setdefault(user) == IF user \in DOMAIN last_times THEN last_times[user] ELSE <<>>

\* rate_limit.py:31, user_times.get(cmd, 0).
Last(user_times, cmd) == IF cmd \in DOMAIN user_times THEN user_times[cmd] ELSE 0

\* rate_limit.py:17-37: one message passes the middleware at clock reading
\* now; the reference point of time.monotonic() is not defined, so the first
\* reading may be any value. The middleware is registered for messages only
\* (main.py:46), so the event is a Message.
RateLimitMiddleware_call ==
    \E user \in Users, text \in Texts, now \in monotonic..MaxTime :
        LET cmd == Command(text)
            limited == user \notin allowed_user_ids /\ cmd # "none"
            user_times == setdefault(user)
            last == Last(user_times, cmd)
            rejected == limited /\ now - last < commands_limits[cmd]
        IN  /\ monotonic' = now
            /\ last_times' =
                   IF ~limited THEN last_times
                   ELSE IF rejected THEN Put(last_times, user, user_times)
                   ELSE Put(last_times, user, Put(user_times, cmd, now))
            /\ log' = [event |-> [user |-> user, text |-> text, at |-> now,
                                  outcome |-> IF rejected THEN "rejected"
                                              ELSE "handled",
                                  first |-> <<user, cmd>> \notin log.invoked],
                       handled |-> IF limited /\ ~rejected
                                   THEN Append(log.handled,
                                               [user |-> user, cmd |-> cmd, at |-> now])
                                   ELSE log.handled,
                       invoked |-> log.invoked \cup {<<user, cmd>>}]
            /\ UNCHANGED <<store, market, pc, wlocals, fe, hist, edited, file,
                           tasks, call, menu>>

InitRate ==
    /\ store = NoConfig
    /\ market = "any"
    /\ Start
    /\ NoService

\* Messages arriving at the dispatcher, one at a time.
SpecRate == InitRate /\ [][RateLimitMiddleware_call]_vars

\* ------------------------------------------------------------- claims
Stored(i) == store.PROFILES[i]
Indexes == 1..Len(store.PROFILES)
Price == filtered_gifts[gift_index].price
\* A buy_gift call is in flight.
Buying == pc = "buy"
\* An active cycle has just ended.
CycleEnded == pc = "sleep" /\ cyc.active
Kinds(msgs) == [k \in 1..Len(msgs) |-> msgs[k].kind]

\* C1: the worker alone never takes a profile's persisted BOUGHT above its
\* COUNT, and never calls buy_gift for a profile whose BOUGHT has reached
\* COUNT.
C1_CountInvariant ==
    /\ \A i \in Indexes : Stored(i).BOUGHT <= Stored(i).COUNT
    /\ Buying => Stored(profile_index).BOUGHT < Stored(profile_index).COUNT

\* The worker has just saved the purchase that reaches COUNT.
C1_Witness ==
    /\ pc = "cooldown"
    /\ profile_index \in cyc.succeeded
    /\ Stored(profile_index).BOUGHT = Stored(profile_index).COUNT
    /\ Stored(profile_index).COUNT = MaxCount

\* C2: the worker alone never takes a profile's persisted SPENT more than
\* one item's price above its LIMIT, and calls buy_gift for an item only
\* when SPENT + price <= LIMIT.
C2_BudgetInvariant ==
    /\ \A i \in Indexes : Stored(i).SPENT <= Stored(i).LIMIT + MaxPrice
    /\ Buying => Stored(profile_index).SPENT + Price <= Stored(profile_index).LIMIT

\* A buy_gift call that uses up the rest of the limit exactly.
C2_Witness ==
    /\ Buying
    /\ Stored(profile_index).SPENT > 0
    /\ Stored(profile_index).SPENT + Price = Stored(profile_index).LIMIT

\* C3: the worker starts a buy_gift call only while the persisted ACTIVE
\* flag is true.
C3_ActiveGatesSpending ==
    [][(pc = "check" /\ pc' = "buy") => store.ACTIVE]_vars

\* C4: the worker makes no inventory query and no buy_gift call for a
\* profile that is DONE, nor for one that was marked DONE and has not been
\* reset since.
C4_DoneExcluded ==
    pc \in {"query", "buy"} =>
        /\ ~profiles[profile_index].DONE
        /\ profile_index \notin everDone

\* C5: whenever no purchase is waiting to be recorded, every profile's
\* persisted BOUGHT is the number of successful buy_gift calls made for it
\* since it was created or last reset, and SPENT the sum of their prices.
C5_NoLostCounting ==
    pc \notin {"reload", "save"} =>
        \A i \in Indexes :
            /\ Stored(i).BOUGHT = execOK[i]
            /\ Stored(i).SPENT = execSpent[i]

\* Profile i bought this cycle and ended it below both caps with no offered
\* item that still fits its limit.
Stuck(i) ==
    /\ i \in cyc.succeeded
    /\ Stored(i).BOUGHT < Stored(i).COUNT
    /\ Stored(i).SPENT < Stored(i).LIMIT
    /\ \A k \in 1..Len(cyc.offered[i]) :
           Stored(i).SPENT + cyc.offered[i][k].price > Stored(i).LIMIT

\* The report of the cycle lists profile i as partial with its counters.
PartialEntry(i) ==
    \E m \in 1..Len(cyc.msgs) :
        /\ cyc.msgs[m].kind = "report"
        /\ \E e \in 1..Len(cyc.msgs[m].lines) :
               LET entry == cyc.msgs[m].lines[e]
               IN  /\ entry.kind = "partial"
                   /\ entry.index = i
                   /\ entry.bought = Stored(i).BOUGHT
                   /\ entry.spent = Stored(i).SPENT

\* C6 as stated: a profile that bought and then cannot afford any offered
\* item, with both caps unreached, is DONE at the end of the cycle.
C6_BudgetCompletion ==
    CycleEnded => \A i \in DOMAIN cyc.offered : Stuck(i) => Stored(i).DONE

\* C6 as amended: no buy_gift call is made while no offered item fits the
\* limit, and such a profile is not DONE at the end of the cycle: the report
\* lists it as partial with its BOUGHT and SPENT.
C6_BudgetPartial ==
    /\ (Buying /\ purchases # <<>>) =>
           \E k \in 1..Len(filtered_gifts) :
               profile.SPENT + filtered_gifts[k].price <= LIMIT
    /\ CycleEnded =>
           \A i \in DOMAIN cyc.offered :
               Stuck(i) => ~Stored(i).DONE /\ PartialEntry(i)

\* COUNT = MaxCount, LIMIT = MaxLimit, one item priced MaxPrice bought, the
\* next one no longer fits.
C6_Witness ==
    /\ CycleEnded
    /\ \E i \in DOMAIN cyc.offered :
           /\ Stuck(i)
           /\ Stored(i).COUNT = MaxCount
           /\ Stored(i).LIMIT = MaxLimit
           /\ Stored(i).BOUGHT >= 1
           /\ Stored(i).SPENT = Stored(i).BOUGHT * MaxPrice

Fresh(p) == p.BOUGHT = 0 /\ p.SPENT = 0 /\ ~p.DONE

\* Profile i is fresh with COUNT = n and a LIMIT that covers n items priced 1,
\* the worker is active and the market is the ideal one.
IdealStart(i, n) ==
    /\ market = "ideal"
    /\ pc = "load"
    /\ store.ACTIVE
    /\ i \in Indexes
    /\ Fresh(Stored(i))
    /\ Stored(i).COUNT = n
    /\ Stored(i).LIMIT >= n
    /\ execOK[i] = 0

CountCompleted(i, n) ==
    /\ i \in Indexes
    /\ Stored(i).DONE
    /\ Stored(i).BOUGHT = n
    /\ execOK[i] = n

\* C7: in the ideal market a fresh profile with COUNT = n and a large enough
\* LIMIT is eventually DONE with BOUGHT = n after exactly n successful
\* buy_gift calls, and stays so: no further call is made for it.
C7_CountTermination ==
    \A i \in InitLens : \A n \in Counts :
        IdealStart(i, n) ~> [](CountCompleted(i, n))

\* The profile is DONE after MaxCount purchases in the ideal market.
C7_Witness ==
    /\ market = "ideal"
    /\ CycleEnded
    /\ \E i \in Indexes :
           /\ CountCompleted(i, MaxCount)
           /\ i \in cyc.succeeded
           /\ Fresh(cyc.start[i])

\* Two profiles, neither DONE, both with attempted purchases, every call
\* failed.
BothFailed ==
    /\ CycleEnded
    /\ Len(cyc.start) = 2
    /\ ~cyc.start[1].DONE
    /\ ~cyc.start[2].DONE
    /\ cyc.attempted = {1, 2}
    /\ cyc.succeeded = {}

\* C8: after a cycle over two not-done profiles in which both had buy_gift
\* calls and every call failed, ACTIVE is persisted false, exactly one
\* deactivation notice was sent and no profile changed.
C8_TotalFailure ==
    BothFailed =>
        /\ ~store.ACTIVE
        /\ Kinds(cyc.msgs) = <<"insufficient_balance">>
        /\ store.PROFILES = cyc.start

C8_Witness == BothFailed

Deactivated ==
    /\ ~store.ACTIVE
    /\ Kinds(cyc.msgs) = <<"insufficient_balance">>

\* C9 as stated: every active cycle without a successful purchase and
\* without progress ends with ACTIVE persisted false and exactly one
\* deactivation notice.
C9_FailureRule ==
    (CycleEnded /\ cyc.succeeded = {} /\ store.PROFILES = cyc.start) => Deactivated

\* C9 as amended: every active cycle with a failed buy_gift call, without a
\* successful one and without progress, ends so.
C9_FailedAttemptRule ==
    (CycleEnded /\ cyc.failed # {} /\ cyc.succeeded = {}
        /\ store.PROFILES = cyc.start) => Deactivated

\* A cycle whose only attempt failed.
C9_Witness ==
    /\ CycleEnded
    /\ cyc.failed # {}
    /\ cyc.succeeded = {}
    /\ Len(cyc.start) = 1
    /\ store.PROFILES = cyc.start

\* A cycle that began with ACTIVE and every profile DONE has ended.
AllDoneCycle ==
    /\ CycleEnded
    /\ \A i \in 1..Len(cyc.start) : cyc.start[i].DONE

\* C10: a cycle that begins with ACTIVE and every profile DONE makes no
\* inventory query and no buy_gift call, persists ACTIVE = false and sends
\* the all-complete notice exactly once; afterwards the worker only idles.
C10_AllDoneDeactivation ==
    /\ [](AllDoneCycle =>
            /\ cyc.queried = {}
            /\ cyc.attempted = {}
            /\ ~store.ACTIVE
            /\ Kinds(cyc.msgs) = <<"all_complete">>)
    /\ [][(~store.ACTIVE /\ pc \in {"sleep", "load", "idle"}) =>
            (pc' \in {"load", "idle"} /\ store' = store)]_vars

C10_Witness == AllDoneCycle /\ Len(cyc.start) = 2

\* The profiles whose stored record changed during the cycle: those that
\* completed or made partial progress.
Progressed == {i \in 1..Len(cyc.start) : Stored(i) # cyc.start[i]}

\* The lines are one entry per profile of set P, in list order, each tagged
\* completed or partial as the stored DONE says.
ReportCovers(lines, P) ==
    /\ {lines[e].index : e \in 1..Len(lines)} = P
    /\ \A e \in 1..Len(lines) : \A f \in 1..Len(lines) :
           e < f => lines[e].index < lines[f].index
    /\ \A e \in 1..Len(lines) :
           lines[e].kind = IF Stored(lines[e].index).DONE
                           THEN "completed" ELSE "partial"

\* C11: a cycle in which a profile completed or progressed ends with exactly
\* one message, the report, holding one entry per such profile in list order,
\* and with the persisted ACTIVE equal to "not every profile is DONE".
C11_ProgressCycle ==
    (CycleEnded /\ Progressed # {}) =>
        /\ Kinds(cyc.msgs) = <<"report">>
        /\ ReportCovers(cyc.msgs[1].lines, Progressed)
        /\ store.ACTIVE = ~AllDone(store.PROFILES)

\* One profile completed and the other progressed partially in one cycle.
C11_Witness ==
    /\ CycleEnded
    /\ Progressed = {1, 2}
    /\ Stored(1).DONE
    /\ ~Stored(2).DONE
    /\ store.ACTIVE

\* The successful buy_gift calls of profile i that no save holds yet.
Unsaved(i) == execOK[i] - Stored(i).BOUGHT
UnsavedSpent(i) == execSpent[i] - Stored(i).SPENT

C13_EditSurvivesNextSave ==
    [][(edited # NoEdit /\ edited' = NoEdit) =>
          Limits_of(store') = edited]_vars

\* The purchase progress of a configuration: BOUGHT, SPENT and DONE of every
\* profile.
Progress(cfg) ==
    [i \in 1..Len(cfg.PROFILES) |->
        <<cfg.PROFILES[i].BOUGHT, cfg.PROFILES[i].SPENT, cfg.PROFILES[i].DONE>>]

FieldEdits == {"step_edit_count", "step_edit_limit"}

\* C14: the save of a field edit leaves the persisted BOUGHT, SPENT and DONE
\* of every profile as they were, that is as the worker last wrote them.
C14_EditsKeepProgress ==
    [][(fe.handler \in FieldEdits /\ fe' = NoHandler) =>
          Progress(store') = Progress(store)]_vars

Saving(t) == tasks[t].op = "save" /\ tasks[t].pos \in {"called", "opened"}
Loaded(t) == tasks[t].op = "load" /\ tasks[t].pos = "done"

\* C15: every load_config returns the document of one complete save, and
\* once no save is in flight the file is the document of one of the saves.
C15_AtomicSave ==
    /\ \A t \in Tasks : Loaded(t) => tasks[t].result.ok
    /\ (\A t \in Tasks : ~Saving(t)) => loads(file).ok

\* The "yes" of a confirmation removed the profile of a one-profile list:
\* the handler ran to its end and showed the list again.
RemovedOnlyProfile ==
    /\ on_profile_delete_final
    /\ Len(store.PROFILES) = 1
    /\ menu' # menu

\* C16: the persisted profile list is never empty, and removing the only
\* profile leaves exactly one default profile (BOUGHT = 0, SPENT = 0, not
\* DONE) with ACTIVE persisted false.
C16_NeverEmpty ==
    /\ [](Len(store.PROFILES) >= 1)
    /\ [][RemovedOnlyProfile =>
            /\ store'.PROFILES = <<DEFAULT_PROFILE>>
            /\ Fresh(store'.PROFILES[1])
            /\ ~store'.ACTIVE]_vars

\* The only profile, bought out while ACTIVE, has been removed: a default
\* profile is in its place.
C16_Witness ==
    /\ store.PROFILES = <<DEFAULT_PROFILE>>
    /\ ~store.ACTIVE
    /\ ListKeyboard(1) \in menu.keyboards
    /\ ConfirmKeyboard(0) \notin menu.keyboards

\* C17: the persisted profile list never has more than MAX_PROFILES
\* elements.
C17_Bounded == Len(store.PROFILES) <= MAX_PROFILES

\* A stored field that passes the schema.
FieldValid(value, schema) ==
    value.t # "missing" /\ is_valid_type(value, schema[1], schema[2])

\* The profile the repair policy promises for an element of PROFILES.
RepairedProfile(p) ==
    Dict([key \in ProfileKeys |->
             IF p.t = "dict" /\ FieldValid(p.f[key], PROFILE_TYPES[key])
             THEN p.f[key]
             ELSE DefaultFields(USER_ID)[key]])

\* The configuration the repair policy promises for a stored document:
\* valid fields kept, the others at their defaults; PROFILES is valid when
\* it is a list.
Repaired(doc) ==
    [BALANCE |-> IF FieldValid(doc.BALANCE, CONFIG_TYPES.BALANCE)
                 THEN doc.BALANCE ELSE DefaultDoc(USER_ID).BALANCE,
     ACTIVE |-> IF FieldValid(doc.ACTIVE, CONFIG_TYPES.ACTIVE)
                THEN doc.ACTIVE ELSE DefaultDoc(USER_ID).ACTIVE,
     LAST_MENU_MESSAGE_ID |->
         IF FieldValid(doc.LAST_MENU_MESSAGE_ID, CONFIG_TYPES.LAST_MENU_MESSAGE_ID)
         THEN doc.LAST_MENU_MESSAGE_ID
         ELSE DefaultDoc(USER_ID).LAST_MENU_MESSAGE_ID,
     PROFILES |->
         IF doc.PROFILES.t = "list" /\ doc.PROFILES.v # <<>>
         THEN List([i \in 1..Len(doc.PROFILES.v) |->
                       RepairedProfile(doc.PROFILES.v[i])])
         ELSE DefaultDoc(USER_ID).PROFILES,
     flat |-> NoFields]

\* C18: get_valid_config returns the stored configuration with every
\* missing, wrongly typed or wrongly null schema field replaced by its
\* default and every valid field kept, and it writes the file exactly when
\* what it returns differs from what was stored.
C18_RepairOnRead ==
    call.op = "get_valid_config" =>
        /\ call.ok
        /\ call.result = Repaired(call.loaded)
        /\ call.wrote <=> (call.result # call.loaded)

\* validate_config applied to its own result; an exception propagates.
Twice(c) ==
    LET once == validate_config(c, USER_ID)
    IN  IF once.ok THEN validate_config(once.value, USER_ID) ELSE once

\* C19: validating a validated configuration changes nothing, and the
\* second of two consecutive get_valid_config calls writes nothing and
\* leaves the file as it found it.
C19_Idempotent ==
    /\ Twice(file.doc) = validate_config(file.doc, USER_ID)
    /\ (call.op = "get_valid_config" /\ call.repeat) =>
           /\ ~call.wrote
           /\ file = call.found

\* A second call after a first one that repaired the file.
C19_Witness ==
    /\ call.op = "get_valid_config"
    /\ call.repeat
    /\ call.first_wrote
    /\ call.ok

\* C20: migration turns a record without PROFILES into one with BALANCE,
\* ACTIVE, LAST_MENU_MESSAGE_ID and a PROFILES list of one profile that
\* holds every legacy field that was present and LIMIT=1000000, SPENT=0,
\* BOUGHT=0, DONE=false, COUNT=5 where those were missing; a record with
\* PROFILES is left as it is.
C20_Migration ==
    call.op = "migrate_config_if_needed" =>
        IF call.loaded.PROFILES.t = "missing"
        THEN /\ file = Holding(call.result)
             /\ \A key \in ConfigKeys :
                    /\ call.result[key].t # "missing"
                    /\ call.loaded[key].t # "missing" =>
                           call.result[key] = call.loaded[key]
             /\ call.result.flat = NoFields
             /\ call.result.PROFILES.t = "list"
             /\ Len(call.result.PROFILES.v) = 1
             /\ call.result.PROFILES.v[1].t = "dict"
             /\ \A key \in ProfileKeys :
                    call.result.PROFILES.v[1].f[key] =
                        IF call.loaded.flat[key].t # "missing"
                        THEN call.loaded.flat[key]
                        ELSE CASE key = "LIMIT" -> IntVal(1000000)
                               [] key \in {"SPENT", "BOUGHT"} -> IntVal(0)
                               [] key = "DONE" -> BoolVal(FALSE)
                               [] key = "COUNT" -> IntVal(5)
                               [] OTHER -> Missing
        ELSE /\ ~call.wrote
             /\ call.found # Unparseable => file = call.found

\* A legacy record with a price and no LIMIT has been migrated.
C20_Witness ==
    /\ call.op = "migrate_config_if_needed"
    /\ call.wrote
    /\ call.loaded.PROFILES.t = "missing"
    /\ call.loaded.flat["MIN_PRICE"].t = "int"
    /\ call.loaded.flat["LIMIT"].t = "missing"

\* C21: an unparseable config.json is discarded and rebuilt from the
\* defaults without an error reaching the caller, at start-up
\* (migrate_config_if_needed, then ensure_config) and in every later
\* get_valid_config call.
C21_CorruptionRecovery ==
    /\ (call.op = "migrate_config_if_needed" /\ call.found = Unparseable) =>
           call.ok /\ file = Absent
    /\ call.op = "ensure_config" =>
           /\ call.ok
           /\ file.exists /\ file.json
           /\ ~call.found.exists => file = Holding(DefaultDoc(USER_ID))
    /\ (call.op = "get_valid_config" /\ call.found = Unparseable) =>
           call.ok /\ file = Holding(DefaultDoc(USER_ID))

\* C22: whatever call of a collaborator raises, the worker task does not
\* end: the exception is caught and the loop goes on.
C22_Unkillable == pc # "dead"

\* What the worker does in a step: it issues an inventory query, it issues
\* a buy_gift call, it writes config.json.
WorkerQueries == pc = "scan" /\ pc' = "query"
WorkerBuys == pc = "check" /\ pc' = "buy"
WorkerWrites ==
    /\ pc \in {"save", "done_save", "fail_save", "report_save", "alldone_save"}
    /\ pc' # pc

\* C23: while the persisted ACTIVE is false the worker issues no inventory
\* query and no buy_gift call and writes nothing (it only re-loads the
\* configuration until ACTIVE is true again).
C23_QuietWhileInactive ==
    [][~store.ACTIVE => ~(WorkerQueries \/ WorkerBuys \/ WorkerWrites)]_vars

\* The recipients of a stored profile that are set.
HasUser(p) == p.f["TARGET_USER_ID"].t \notin {"null", "missing"}
HasChat(p) == p.f["TARGET_CHAT_ID"].t \notin {"null", "missing"}

\* C24: every stored profile has a user recipient or a channel recipient,
\* and never both.
C24_OneRecipient ==
    \A i \in 1..Len(file.doc.PROFILES.v) :
        HasUser(file.doc.PROFILES.v[i]) # HasChat(file.doc.PROFILES.v[i])

\* A channel profile and a user profile are stored, the first one set by
\* the recipient editor.
C24_Witness ==
    /\ call.op = "step_edit_user_id"
    /\ Len(file.doc.PROFILES.v) = 2
    /\ HasChat(file.doc.PROFILES.v[1])
    /\ HasUser(file.doc.PROFILES.v[2])

\* The profiles with an entry in a report message of the cycle.
Reported ==
    UNION {{cyc.msgs[k].lines[e].index : e \in 1..Len(cyc.msgs[k].lines)} :
              k \in 1..Len(cyc.msgs)}

\* The profiles the cycle found not DONE and left DONE.
NewlyDone ==
    {i \in 1..Len(cyc.start) :
        /\ ~cyc.start[i].DONE
        /\ i \in Indexes
        /\ Stored(i).DONE}

\* C25: a cycle reports every profile it marked DONE or bought for; a
\* cycle that deactivates the worker has sent a message, and a cycle
\* without a purchase, a completion, a failed attempt or a deactivation
\* sends nothing (the worker is the one that changed ACTIVE when no menu
\* handler has run).
C25_ReportsNeverLost ==
    CycleEnded =>
        /\ cyc.succeeded \cup NewlyDone \subseteq Reported
        /\ fe_calls = 0 =>
               /\ ~store.ACTIVE => cyc.msgs # <<>>
               /\ (/\ cyc.succeeded \cup NewlyDone = {}
                   /\ cyc.failed = {}
                   /\ store.ACTIVE) => cyc.msgs = <<>>

\* C26: a failed executor call abandons the item. The failing step records
\* the failure (any_success false, the profile among the cycle's failed
\* ones) and either goes on to the next position of the list or leaves the
\* pass; within a pass the position never goes back, and the items of a
\* list differ, so the item is not attempted again in this pass.
BuyFails == pc = "buy" /\ pc' # "reload"
SamePass == profile_index' = profile_index /\ filtered_gifts' = filtered_gifts
C26_FailedItemAbandoned ==
    /\ [][BuyFails =>
            /\ any_success' = FALSE
            /\ profile_index \in cyc'.failed
            /\ IF pc' = "check"
               THEN gift_index' = gift_index + 1 /\ SamePass
               ELSE pc' = "eval"]_vars
    /\ [][SamePass /\ filtered_gifts # <<>> => gift_index' >= gift_index]_vars
    /\ [](pc \in {"check", "buy"} => Distinct(filtered_gifts))

\* The second item of a list is attempted after the first one failed.
C26_Witness ==
    /\ pc = "buy"
    /\ gift_index = 2
    /\ purchases = <<>>
    /\ ~any_success
    /\ profile_index \in cyc.failed

\* C27: an empty inventory is a no-op. The step that gets an empty list
\* makes no executor call, leaves the store and the report as they are and
\* moves to the next profile; a cycle that queried some profile and got an
\* empty list every time ends with the store it started from (ACTIVE
\* included) and no message.
QueryEmpty == pc = "query" /\ pc' = "scan"
C27_EmptyInventoryNoOp ==
    /\ [][QueryEmpty =>
            /\ UNCHANGED <<store, report_message_lines, progress_made,
                           any_success, execOK, execSpent>>
            /\ cyc'.attempted = cyc.attempted
            /\ cyc'.msgs = cyc.msgs
            /\ profile_index' = profile_index + 1]_vars
    /\ []((CycleEnded /\ cyc.queried # {} /\ cyc.stocked = {}) =>
            /\ store = [ACTIVE |-> TRUE, PROFILES |-> cyc.start]
            /\ cyc.attempted = {}
            /\ cyc.msgs = <<>>)

\* A cycle over two profiles, both not done, both with an empty inventory.
C27_Witness ==
    /\ CycleEnded
    /\ cyc.queried = {1, 2}
    /\ cyc.stocked = {}

\* C28: the worker's executor calls are strictly sequential. The profiles
\* with a call issued and not yet returned are at most the current one,
\* and only while the worker waits at line 113; a call is issued only when
\* none is outstanding and no later profile of the list has been attempted
\* in this cycle.
Outstanding == cyc.attempted \ (cyc.succeeded \cup cyc.failed)
C28_Sequential ==
    /\ [](Outstanding \subseteq (IF pc = "buy" THEN {profile_index} ELSE {}))
    /\ [][WorkerBuys =>
            /\ Outstanding = {}
            /\ \A j \in cyc.attempted : j <= profile_index]_vars

\* A call for the second profile is in flight after the calls for the first
\* one have returned.
C28_Witness ==
    /\ pc = "buy"
    /\ profile_index = 2
    /\ 1 \in cyc.succeeded \cup cyc.failed
    /\ Outstanding = {2}

\* C29: the worker waits PURCHASE_COOLDOWN between two consecutive
\* executor calls of a cycle: a call is issued only when no earlier call of
\* the cycle has returned since the last cooldown.
C29_Cooldown == [][WorkerBuys => cyc.since # "attempt"]_vars

\* C30: refresh_balance is called at the start of every cycle, after the
\* turn of each profile that completed or progressed, and after a failed
\* cycle is detected.
FailedCycle == \E k \in 1..Len(cyc.msgs) : cyc.msgs[k].kind = "insufficient_balance"
C30_RefreshPoints ==
    CycleEnded =>
        /\ cyc.refreshes.start
        /\ Reported \subseteq cyc.refreshes.profiles
        /\ FailedCycle => cyc.refreshes.failure

\* C31: no silent spin. Unless empty inventory answers keep coming, the
\* worker eventually has every profile DONE or ACTIVE persisted false.
EmptySeen == cyc.queried # cyc.stocked
C31_NoSilentSpin ==
    ([]<>EmptySeen) \/ <>(~store.ACTIVE \/ AllDone(store.PROFILES))

\* C32: cap checks use the persisted values. Once an edit of a cap has been
\* saved while the worker is inside a profile's purchasing phase, the worker
\* issues an executor call for that phase only if the persisted COUNT and
\* LIMIT of the profile allow the purchase.
C32_CurrentCaps ==
    [][(WorkerBuys /\ edited # NoEdit) =>
          WhileCondition(profile, Price, Stored(profile_index).COUNT,
                         Stored(profile_index).LIMIT)]_vars

\* C33: the worker never turns spending on: no save of the worker changes
\* the persisted ACTIVE from false to true.
C33_WorkerNeverActivates ==
    [][WorkerWrites => (store.ACTIVE \/ ~store'.ACTIVE)]_vars

\* C34: a purchase is credited to the profile it was made for. The reload
\* after a successful executor call, and the one before marking DONE, find
\* at profile_index the profile whose COUNT and LIMIT the worker read for
\* this phase, and the purchase or the DONE mark is then saved.
Crediting == pc \in {"reload", "done_reload"} /\ pc' # pc
C34_RightProfileCredited ==
    [][Crediting =>
          /\ pc' \in {"save", "done_save"}
          /\ profile'.COUNT = COUNT
          /\ profile'.LIMIT = LIMIT]_vars

\* C35: DONE is written only when justified. The save that marks a profile
\* DONE writes for it a BOUGHT that has reached the COUNT written, or a
\* SPENT that has reached the LIMIT written.
MarksDone == pc = "done_save" /\ pc' # pc
C35_DoneJustified ==
    [][MarksDone =>
          /\ store'.PROFILES[profile_index].DONE
          /\ Reached(store'.PROFILES[profile_index],
                     store'.PROFILES[profile_index].COUNT,
                     store'.PROFILES[profile_index].LIMIT)]_vars

\* C36: the worker sends at most one message per cycle: the deactivation
\* notice, the report or the all-complete notice. A cycle whose report has a
\* "completed" entry, the one for the last open profile included, sends the
\* report alone.
Completions ==
    {k \in 1..Len(cyc.msgs) :
        \E e \in 1..Len(cyc.msgs[k].lines) : cyc.msgs[k].lines[e].kind = "completed"}
C36_OneMessagePerCycle ==
    /\ Len(cyc.msgs) <= 1
    /\ Completions # {} => Kinds(cyc.msgs) = <<"report">>

\* The cycle completed the last open profile and sent the report.
C36_Witness ==
    /\ CycleEnded
    /\ Completions # {}
    /\ AllDone(store.PROFILES)
    /\ ~store.ACTIVE
    /\ Kinds(cyc.msgs) = <<"report">>

\* C37: profile deletion is all-or-nothing. A confirmation whose index is
\* past the end of the current list fails (its message keeps the keyboard)
\* and leaves the persisted configuration, ACTIVE included, as it was.
C37_DeleteAllOrNothing ==
    [][(on_profile_delete_final /\ UNCHANGED menu) => UNCHANGED store]_vars

\* C38: rate limiting. Two invocations of a limited command by a user
\* outside the allow-list that both reach the handler are at least the
\* limit apart; a rejection leaves the stored timestamps as they are; the
\* user's first invocation of a command reaches the handler; allow-listed
\* users and messages that are no limited command always pass.
Limited(e) == e.user \notin allowed_user_ids /\ Command(e.text) # "none"
Stamps(times, user) ==
    [c \in DOMAIN commands_limits |->
        IF user \in DOMAIN times THEN Last(times[user], c) ELSE 0]
C38_Spacing ==
    \A i \in 1..Len(log.handled) : \A j \in 1..Len(log.handled) :
        (i < j /\ log.handled[i].user = log.handled[j].user
               /\ log.handled[i].cmd = log.handled[j].cmd)
            => log.handled[j].at - log.handled[i].at
                   >= commands_limits[log.handled[i].cmd]
C38_RejectionKeepsStamp ==
    [][log'.event.outcome = "rejected" =>
          Stamps(last_times', log'.event.user) = Stamps(last_times, log'.event.user)]_vars
C38_FirstPasses ==
    (Limited(log.event) /\ log.event.first) => log.event.outcome = "handled"
C38_ExemptPass ==
    (log.event.outcome # "none" /\ ~Limited(log.event)) => log.event.outcome = "handled"
C38_RateLimit ==
    /\ []C38_Spacing
    /\ C38_RejectionKeepsStamp
    /\ []C38_FirstPasses
    /\ []C38_ExemptPass

====
